---- MODULE Spec2Model ----
(***************************************************************************)
(* A model of minecraft-holodeck: the command AST and coordinate resolver  *)
(* (parser/ast.py, parser/transformer.py), the structure analyzer          *)
(* (converter.py, placer.py), the world modifier (world/modifier.py), the  *)
(* world editor (api.py) and the structure placer (placer.py).             *)
(***************************************************************************)
EXTENDS Integers, Sequences, FiniteSets, TLC

VARIABLES
    world,   \* the opened level: cell <<x, y, z>> -> block id, for every cell written
    editor,  \* StructurePlacer._editor: NoEditor, or the WorldEditor with its origin
    last,    \* the last call made on the analyzer, the resolver or the placer
    ncalls   \* the number of calls made so far

vars == <<world, editor, last, ncalls>>

-----------------------------------------------------------------------------
(* Bounds of the model *)

\* Longest script (in lines) the analyzer is run on.
MaxLines == 2

\* Largest gap handed to place_adjacent and largest spacing handed to place_grid.
MaxGap == 1

\* Largest number of grid columns and of grid rows handed to place_grid.
MaxGrid == 2

\* Number of calls made on one StructurePlacer.
MaxCalls == 2

\* Largest magnitude of a coordinate value handed to the resolver.
MaxVal == 1

\* Largest coordinate of a corner handed to fill_region (the smallest is 0).
MaxDim == 2

\* Longest text of a block-state value spelled out of single characters.
MaxText == 3

\* Number of calls (placements, save, close, exit) made on one StructurePlacer
\* whose world sessions are followed.
MaxSteps == 4

-----------------------------------------------------------------------------
(* Python values *)

\* float("inf"), float("-inf") and a finite number, as the running minima and
\* maxima of the analyzer hold them.
PosInf == [fin |-> FALSE, sign |-> 1, val |-> 0]
NegInf == [fin |-> FALSE, sign |-> -1, val |-> 0]
Fin(n) == [fin |-> TRUE, sign |-> 0, val |-> n]

\* min(a, n) and max(a, n) of a running bound a and an integer n.
pymin(a, n) ==
    IF a.fin THEN (IF n < a.val THEN Fin(n) ELSE a)
    ELSE IF a.sign = 1 THEN Fin(n) ELSE a

pymax(a, n) ==
    IF a.fin THEN (IF n > a.val THEN Fin(n) ELSE a)
    ELSE IF a.sign = -1 THEN Fin(n) ELSE a

\* int(a): the integer of a finite number; int(float("inf")) raises OverflowError.
CanInt(a) == a.fin
pyint(a) == a.val

abs(n) == IF n < 0 THEN -n ELSE n

\* The text of a number is its sign character ("", "+" or "-") and its digits.
\* str(n) writes the sign of a negative number only; f"{n:+d}" always writes it.
NumberText(n) == [sign |-> IF n < 0 THEN "-" ELSE "", digits |-> abs(n)]
SignedText(n) == [sign |-> IF n < 0 THEN "-" ELSE "+", digits |-> abs(n)]

\* int(text) of the text of a signed number.
int(text) == IF text.sign = "-" THEN 0 - text.digits ELSE text.digits
Min2(a, b) == IF a <= b THEN a ELSE b
Max2(a, b) == IF a >= b THEN a ELSE b

Raised(e) == [raised |-> e]
Returned(v) == [raised |-> "none", value |-> v]

\* A str is the sequence of its characters.
DigitChars == <<"0", "1", "2", "3", "4", "5", "6", "7", "8", "9">>
SignChars == {"-", "+"}

\* str.isdigit: at least one character, all of them digits.
isdigit(s) == Len(s) > 0 /\ \A i \in 1..Len(s) : \E d \in 1..10 : DigitChars[d] = s[i]

\* str.lstrip(chars): the leading characters that are in chars removed.
RECURSIVE lstrip(_, _)
lstrip(s, chars) ==
    IF Len(s) > 0 /\ s[1] \in chars THEN lstrip(Tail(s), chars) ELSE s

\* The number a string of digits writes in base ten.
DigitOf(ch) == (CHOOSE d \in 1..10 : DigitChars[d] = ch) - 1
RECURSIVE Decimal(_)
Decimal(s) ==
    IF Len(s) = 0 THEN 0
    ELSE 10 * Decimal(SubSeq(s, 1, Len(s) - 1)) + DigitOf(s[Len(s)])

\* int(s) of a str: at most one sign, then digits; ValueError otherwise.
IntOfStr(s) ==
    IF Len(s) > 0 /\ s[1] \in SignChars
    THEN (IF isdigit(Tail(s))
          THEN Returned(IF s[1] = "-" THEN 0 - Decimal(Tail(s)) ELSE Decimal(Tail(s)))
          ELSE Raised("ValueError"))
    ELSE IF isdigit(s) THEN Returned(Decimal(s)) ELSE Raised("ValueError")

\* A bool, an int and a str, as the values of block states.
PyBool(b) == [type |-> "bool", value |-> b]
PyInt(n) == [type |-> "int", value |-> n]
PyStr(s) == [type |-> "str", value |-> s]

\* str(n) of an int: a "-" for a negative number, then its digits.
RECURSIVE DigitsOf(_)
DigitsOf(n) ==
    IF n < 10 THEN <<DigitChars[n + 1]>>
    ELSE Append(DigitsOf(n \div 10), DigitChars[(n % 10) + 1])

\* str(v) and f"{v}": "True" and "False" for a bool.
str(v) ==
    IF v.type = "bool" THEN (IF v.value THEN <<"T", "r", "u", "e">>
                               ELSE <<"F", "a", "l", "s", "e">>)
    ELSE IF v.type = "int" THEN (IF v.value < 0 THEN <<"-">> \o DigitsOf(0 - v.value)
                                  ELSE DigitsOf(v.value))
    ELSE v.value

\* str.lower() of the texts above: "T" and "F" are their only capitals.
lower(s) ==
    [i \in 1..Len(s) |-> IF s[i] = "T" THEN "t" ELSE IF s[i] = "F" THEN "f" ELSE s[i]]

\* dict(items) of (key, value) pairs: a key keeps the place of its first pair
\* and the value of its last.
RECURSIVE dict(_)
dict(items) ==
    IF Len(items) = 0 THEN <<>>
    ELSE LET front == dict(SubSeq(items, 1, Len(items) - 1))
             pair == items[Len(items)]
         IN IF \E i \in 1..Len(front) : front[i][1] = pair[1]
            THEN [i \in 1..Len(front) |->
                    IF front[i][1] = pair[1] THEN pair ELSE front[i]]
            ELSE Append(front, pair)

-----------------------------------------------------------------------------
(* parser/ast.py *)

Coordinate(value, relative) == [value |-> value, relative |-> relative]

\* The resolver with the origin added to absolute coordinates as well.
CoordResolveAlwaysAdds(c, origin) == origin + c.value

\* Coordinate.resolve
CoordResolve(c, origin) == IF c.relative THEN origin + c.value ELSE c.value

Position(cx, cy, cz) == [x |-> cx, y |-> cy, z |-> cz]

\* Position.resolve
PosResolve(pos, origin) ==
    << CoordResolve(pos.x, origin[1]),
       CoordResolve(pos.y, origin[2]),
       CoordResolve(pos.z, origin[3]) >>

\* states=None
NoStates == <<>>

\* BlockSpec: states is None or <<dict>>.
BlockSpec(namespace, block_id, states) ==
    [namespace |-> namespace, block_id |-> block_id, states |-> states]

SetblockCommand(position, block) ==
    [type |-> "SetblockCommand", position |-> position, block |-> block]

FillCommand(pos1, pos2, block, mode) ==
    [type |-> "FillCommand", pos1 |-> pos1, pos2 |-> pos2, block |-> block,
     mode |-> mode]

-----------------------------------------------------------------------------
(* parser/transformer.py: a coordinate token is the grammar rule that matched *)
(* and the items handed to the transformer                                    *)

AbsTok(n) == [rule |-> "abs_coord", items |-> <<NumberText(n)>>]
RelTok(n) == [rule |-> "rel_coord", items |-> <<NumberText(n)>>]
Tilde == [rule |-> "rel_coord", items |-> <<>>]

abs_coord(items) == Coordinate(int(items[1]), FALSE)

\* The transformer of "~N" giving an absolute coordinate.
RelCoordAsAbsolute(items) ==
    IF Len(items) = 0 THEN Coordinate(0, TRUE) ELSE Coordinate(int(items[1]), FALSE)

rel_coord(items) ==
    IF Len(items) = 0 THEN Coordinate(0, TRUE) ELSE Coordinate(int(items[1]), TRUE)

coord(tok) ==
    IF tok.rule = "abs_coord" THEN abs_coord(tok.items) ELSE rel_coord(tok.items)

position(items) == Position(coord(items[1]), coord(items[2]), coord(items[3]))

TrueText == <<"t", "r", "u", "e">>
FalseText == <<"f", "a", "l", "s", "e">>

\* ASTTransformer.state_value with "true" and "false" left as they are.
StateValueKeepsWords(items) ==
    IF Len(items) = 0 THEN Raised("ValueError")
    ELSE LET value == items[1] IN
         IF isdigit(lstrip(value, SignChars))
         THEN (IF IntOfStr(value).raised # "none" THEN Raised("ValueError")
               ELSE Returned(PyInt(IntOfStr(value).value)))
         ELSE Returned(PyStr(value))

\* ASTTransformer.state_value: int(value) raises ValueError on a text that
\* has more than one sign before its digits.
state_value(items) ==
    IF Len(items) = 0 THEN Raised("ValueError")
    ELSE LET value == items[1] IN
         IF value = TrueText THEN Returned(PyBool(TRUE))
         ELSE IF value = FalseText THEN Returned(PyBool(FALSE))
         ELSE IF isdigit(lstrip(value, SignChars))
         THEN (IF IntOfStr(value).raised # "none" THEN Raised("ValueError")
               ELSE Returned(PyInt(IntOfStr(value).value)))
         ELSE Returned(PyStr(value))

state_pair(items) == <<items[1], items[2]>>

block_states(items) == dict(items)

\* A block id token is the namespace before its ":", if it has one, and the
\* id after it.
NameTok(namespace, id) == [namespace |-> namespace, id |-> id]

\* ASTTransformer.block_spec: items[2], when there, is the dict of the states.
block_spec(items) ==
    LET namespaced_id == items[1] IN
    BlockSpec(IF Len(namespaced_id.namespace) > 0 THEN namespaced_id.namespace[1]
              ELSE "minecraft",
              namespaced_id.id,
              IF Len(items) > 1 THEN <<items[2]>> ELSE NoStates)

\* The tree of a block: its id token and, when it has a state list, the
\* (key, value text) pairs of the list.
BlockTree(name, states) == [name |-> name, states |-> states]

\* The values of a state list, each transformed by state_value.
StateValues(pairs) == [i \in 1..Len(pairs) |-> state_value(<<pairs[i][2]>>)]

\* Transformer.transform on the tree of a block, bottom-up; an exception
\* raised by a callback is raised again as VisitError, which is a LarkError.
TransformBlock(tree) ==
    IF Len(tree.states) = 0 THEN Returned(block_spec(<<tree.name>>))
    ELSE IF \E i \in 1..Len(tree.states[1]) :
                StateValues(tree.states[1])[i].raised # "none"
    THEN Raised("VisitError")
    ELSE Returned(block_spec(
             <<tree.name,
               block_states([i \in 1..Len(tree.states[1]) |->
                                state_pair(<<tree.states[1][i][1],
                                             StateValues(tree.states[1])[i].value>>)])>>))

setblock_cmd(items) == SetblockCommand(items[1], items[2])

fill_cmd(items) ==
    FillCommand(items[1], items[2], items[3],
                IF Len(items) > 3 THEN items[4] ELSE "replace")

-----------------------------------------------------------------------------
(* A script file is a sequence of lines. A line is blank, a comment, a text  *)
(* the grammar rejects, or the parse tree of a setblock or a fill command.   *)

Blank == [kind |-> "blank"]
Comment == [kind |-> "comment"]
Invalid == [kind |-> "invalid"]
SetblockLine(toks, block) == [kind |-> "setblock", position |-> toks, block |-> block]
FillLine(toks1, toks2, block, mode) ==
    [kind |-> "fill", pos1 |-> toks1, pos2 |-> toks2, block |-> block, mode |-> mode]

\* The end of parse, from the transformed block on.
ParsedWith(line, block) ==
    IF block.raised # "none" THEN Raised("CommandSyntaxError")
    ELSE IF line.kind = "setblock"
    THEN Returned(setblock_cmd(<<position(line.position), block.value>>))
    ELSE Returned(fill_cmd(<<position(line.pos1), position(line.pos2), block.value>>
                           \o line.mode))

\* The parse that lets the LarkError of the parser through.
ParseLarkErrorEscapes(line) ==
    IF line.kind \notin {"setblock", "fill"} THEN Raised("LarkError")
    ELSE ParsedWith(line, TransformBlock(line.block))

\* CommandParser.parse: the AST of the line, or CommandSyntaxError for the
\* LarkError of the parser or of the transformer.
parse(line) ==
    IF line.kind \notin {"setblock", "fill"} THEN Raised("CommandSyntaxError")
    ELSE ParsedWith(line, TransformBlock(line.block))

\* `not line or line.startswith("#")`
Skipped(line) == line.kind \in {"blank", "comment"}

\* The commands a script yields: blank lines, comments and lines that fail
\* to parse are left out.
RECURSIVE ParseFrom(_, _)
ParseFrom(script, i) ==
    IF i > Len(script) THEN <<>>
    ELSE IF Skipped(script[i]) \/ parse(script[i]).raised # "none"
         THEN ParseFrom(script, i + 1)
         ELSE <<parse(script[i]).value>> \o ParseFrom(script, i + 1)

_parse_commands(script) == ParseFrom(script, 1)

\* _extract_positions_from_command, StructureAnalyzer._extract_positions
_extract_positions(ast) ==
    IF ast.type = "SetblockCommand" THEN <<ast.position>>
    ELSE <<ast.pos1, ast.pos2>>

-----------------------------------------------------------------------------
(* converter.py *)

BoundingBox(min_x, min_y, min_z, max_x, max_y, max_z) ==
    [min_x |-> min_x, min_y |-> min_y, min_z |-> min_z,
     max_x |-> max_x, max_y |-> max_y, max_z |-> max_z]

width(b) == b.max_x - b.min_x + 1
height(b) == b.max_y - b.min_y + 1
depth(b) == b.max_z - b.min_z + 1

NoBounds ==
    [min_x |-> PosInf, min_y |-> PosInf, min_z |-> PosInf,
     max_x |-> NegInf, max_y |-> NegInf, max_z |-> NegInf]

\* One position folded into the running bounds: absolute coordinates only.
BoundsAddPos(b, pos) ==
    [min_x |-> IF pos.x.relative THEN b.min_x ELSE pymin(b.min_x, pos.x.value),
     max_x |-> IF pos.x.relative THEN b.max_x ELSE pymax(b.max_x, pos.x.value),
     min_y |-> IF pos.y.relative THEN b.min_y ELSE pymin(b.min_y, pos.y.value),
     max_y |-> IF pos.y.relative THEN b.max_y ELSE pymax(b.max_y, pos.y.value),
     min_z |-> IF pos.z.relative THEN b.min_z ELSE pymin(b.min_z, pos.z.value),
     max_z |-> IF pos.z.relative THEN b.max_z ELSE pymax(b.max_z, pos.z.value)]

RECURSIVE BoundsAddAll(_, _, _)
BoundsAddAll(b, positions, i) ==
    IF i > Len(positions) THEN b
    ELSE BoundsAddAll(BoundsAddPos(b, positions[i]), positions, i + 1)

RECURSIVE BoundsFrom(_, _, _)
BoundsFrom(b, commands, i) ==
    IF i > Len(commands) THEN b
    ELSE BoundsFrom(BoundsAddAll(b, _extract_positions(commands[i]), 1),
                    commands, i + 1)

_compute_coordinate_bounds(commands) == BoundsFrom(NoBounds, commands, 1)

\* ScriptConverter.analyze_script: the sentinel test reads min_x alone, and
\* int() of a bound that is still infinite raises OverflowError.
analyze_script(script) ==
    LET b == _compute_coordinate_bounds(_parse_commands(script)) IN
    IF b.min_x = PosInf THEN Returned(BoundingBox(0, 0, 0, 0, 0, 0))
    ELSE IF CanInt(b.min_y) /\ CanInt(b.min_z) /\ CanInt(b.max_y) /\ CanInt(b.max_z)
         THEN Returned(BoundingBox(pyint(b.min_x), pyint(b.min_y), pyint(b.min_z),
                                   pyint(b.max_x), pyint(b.max_y), pyint(b.max_z)))
         ELSE Raised("OverflowError")

-----------------------------------------------------------------------------
(* placer.py: StructureAnalyzer *)

SliceInfo(y, min_x, max_x, min_z, max_z, block_count) ==
    [y |-> y, min_x |-> min_x, max_x |-> max_x, min_z |-> min_z, max_z |-> max_z,
     block_count |-> block_count]

Footprint(min_x, max_x, min_z, max_z, y_level, block_count) ==
    [min_x |-> min_x, max_x |-> max_x, min_z |-> min_z, max_z |-> max_z,
     y_level |-> y_level, block_count |-> block_count]

NoExtent ==
    [min_x |-> PosInf, max_x |-> NegInf, min_z |-> PosInf, max_z |-> NegInf,
     block_count |-> 0]

\* The body of the loop of get_slice_at_y for one command.
SliceStep(a, cmd, y) ==
    IF cmd.type = "SetblockCommand"
    THEN LET pos == cmd.position IN
         IF ~pos.y.relative /\ pos.y.value = y
         THEN [min_x |-> IF pos.x.relative THEN a.min_x ELSE pymin(a.min_x, pos.x.value),
               max_x |-> IF pos.x.relative THEN a.max_x ELSE pymax(a.max_x, pos.x.value),
               min_z |-> IF pos.z.relative THEN a.min_z ELSE pymin(a.min_z, pos.z.value),
               max_z |-> IF pos.z.relative THEN a.max_z ELSE pymax(a.max_z, pos.z.value),
               block_count |-> a.block_count + 1]
         ELSE a
    ELSE LET p1 == cmd.pos1
             p2 == cmd.pos2
             both_x == ~p1.x.relative /\ ~p2.x.relative
             both_z == ~p1.z.relative /\ ~p2.z.relative
             x_range == abs(p2.x.value - p1.x.value) + 1
             z_range == abs(p2.z.value - p1.z.value) + 1
         IN
         IF ~p1.y.relative /\ ~p2.y.relative
            /\ Min2(p1.y.value, p2.y.value) <= y /\ y <= Max2(p1.y.value, p2.y.value)
         THEN [min_x |-> IF both_x THEN pymin(pymin(a.min_x, p1.x.value), p2.x.value)
                         ELSE a.min_x,
               max_x |-> IF both_x THEN pymax(pymax(a.max_x, p1.x.value), p2.x.value)
                         ELSE a.max_x,
               min_z |-> IF both_z THEN pymin(pymin(a.min_z, p1.z.value), p2.z.value)
                         ELSE a.min_z,
               max_z |-> IF both_z THEN pymax(pymax(a.max_z, p1.z.value), p2.z.value)
                         ELSE a.max_z,
               block_count |-> a.block_count + x_range * z_range]
         ELSE a

RECURSIVE SliceFold(_, _, _, _)
SliceFold(a, commands, i, y) ==
    IF i > Len(commands) THEN a
    ELSE SliceFold(SliceStep(a, commands[i], y), commands, i + 1, y)

\* StructureAnalyzer.get_slice_at_y
get_slice_at_y(script, y) ==
    LET a == SliceFold(NoExtent, _parse_commands(script), 1, y) IN
    IF a.min_x = PosInf THEN Returned(SliceInfo(y, 0, 0, 0, 0, 0))
    ELSE IF CanInt(a.min_z) /\ CanInt(a.max_z)
         THEN Returned(SliceInfo(y, pyint(a.min_x), pyint(a.max_x),
                                 pyint(a.min_z), pyint(a.max_z), a.block_count))
         ELSE Raised("OverflowError")

\* The body of the loop of _get_footprint_at_y for one command.
FootprintStep(a, cmd, y) ==
    IF cmd.type = "SetblockCommand"
    THEN LET pos == cmd.position IN
         IF ~pos.y.relative /\ pos.y.value = y
         THEN [min_x |-> IF pos.x.relative THEN a.min_x ELSE pymin(a.min_x, pos.x.value),
               max_x |-> IF pos.x.relative THEN a.max_x ELSE pymax(a.max_x, pos.x.value),
               min_z |-> IF pos.z.relative THEN a.min_z ELSE pymin(a.min_z, pos.z.value),
               max_z |-> IF pos.z.relative THEN a.max_z ELSE pymax(a.max_z, pos.z.value),
               block_count |-> a.block_count + 1]
         ELSE a
    ELSE LET p1 == cmd.pos1
             p2 == cmd.pos2
             both_x == ~p1.x.relative /\ ~p2.x.relative
             both_z == ~p1.z.relative /\ ~p2.z.relative
             x_range == abs(p2.x.value - p1.x.value) + 1
             z_range == abs(p2.z.value - p1.z.value) + 1
         IN
         IF ~p1.y.relative /\ ~p2.y.relative
            /\ Min2(p1.y.value, p2.y.value) <= y /\ y <= Max2(p1.y.value, p2.y.value)
         THEN [min_x |-> IF both_x THEN pymin(pymin(a.min_x, p1.x.value), p2.x.value)
                         ELSE a.min_x,
               max_x |-> IF both_x THEN pymax(pymax(a.max_x, p1.x.value), p2.x.value)
                         ELSE a.max_x,
               min_z |-> IF both_z THEN pymin(pymin(a.min_z, p1.z.value), p2.z.value)
                         ELSE a.min_z,
               max_z |-> IF both_z THEN pymax(pymax(a.max_z, p1.z.value), p2.z.value)
                         ELSE a.max_z,
               block_count |-> a.block_count + x_range * z_range]
         ELSE a

RECURSIVE FootprintFold(_, _, _, _)
FootprintFold(a, commands, i, y) ==
    IF i > Len(commands) THEN a
    ELSE FootprintFold(FootprintStep(a, commands[i], y), commands, i + 1, y)

\* StructureAnalyzer._get_footprint_at_y
_get_footprint_at_y(commands, y) ==
    LET a == FootprintFold(NoExtent, commands, 1, y) IN
    IF a.min_x = PosInf THEN Returned(Footprint(0, 0, 0, 0, y, 0))
    ELSE IF CanInt(a.min_z) /\ CanInt(a.max_z)
         THEN Returned(Footprint(pyint(a.min_x), pyint(a.max_x),
                                 pyint(a.min_z), pyint(a.max_z), y, a.block_count))
         ELSE Raised("OverflowError")

\* The running minimum of the absolute y of the positions of the commands.
RECURSIVE MinYPos(_, _, _)
MinYPos(m, positions, i) ==
    IF i > Len(positions) THEN m
    ELSE MinYPos(IF positions[i].y.relative THEN m ELSE pymin(m, positions[i].y.value),
                 positions, i + 1)

RECURSIVE MinYFrom(_, _, _)
MinYFrom(m, commands, i) ==
    IF i > Len(commands) THEN m
    ELSE MinYFrom(MinYPos(m, _extract_positions(commands[i]), 1), commands, i + 1)

\* StructureAnalyzer.get_base_footprint
get_base_footprint(script) ==
    LET commands == _parse_commands(script)
        min_y == MinYFrom(PosInf, commands, 1)
    IN
    IF Len(commands) = 0 THEN Returned(Footprint(0, 0, 0, 0, 0, 0))
    ELSE IF min_y = PosInf THEN Returned(Footprint(0, 0, 0, 0, 0, 0))
    ELSE _get_footprint_at_y(commands, pyint(min_y))

\* StructureAnalyzer.get_bounding_box
get_bounding_box(script) == analyze_script(script)

-----------------------------------------------------------------------------
(* converter.py: ScriptConverter.convert_file. The text of a coordinate is   *)
(* "~" or "~" followed by a signed number; number holds what follows "~".    *)

\* "~" and f"~{n:+d}"
TildeText == [tilde |-> TRUE, number |-> <<>>]
TildeSignedText(n) == [tilde |-> TRUE, number |-> <<SignedText(n)>>]

\* The conversion with the offset taken as base - value.
ConvertCoordFromBase(c, base) ==
    IF c.relative
    THEN (IF c.value = 0 THEN TildeText ELSE TildeSignedText(c.value))
    ELSE LET offset == base - c.value IN
         IF offset = 0 THEN TildeText ELSE TildeSignedText(offset)

\* ScriptConverter._convert_coord
_convert_coord(c, base) ==
    IF c.relative
    THEN (IF c.value = 0 THEN TildeText ELSE TildeSignedText(c.value))
    ELSE LET offset == c.value - base IN
         IF offset = 0 THEN TildeText ELSE TildeSignedText(offset)

\* ScriptConverter._convert_position: the three texts, joined by spaces.
_convert_position(pos, base_point) ==
    << _convert_coord(pos.x, base_point[1]),
       _convert_coord(pos.y, base_point[2]),
       _convert_coord(pos.z, base_point[3]) >>

\* The text of a block: its namespace (when written) and id, and the state
\* list in brackets (when written) as (key, value text) pairs.
BlockText(namespace, id, states) == [namespace |-> namespace, id |-> id, states |-> states]

\* ScriptConverter._format_block: the full id, then f"{k}={v}" for every state.
_format_block(block) ==
    BlockText(<<block.namespace>>, block.block_id,
              IF Len(block.states) = 0 \/ Len(block.states[1]) = 0 THEN <<>>
              ELSE <<[i \in 1..Len(block.states[1]) |->
                        <<block.states[1][i][1], str(block.states[1][i][2])>>]>>)

\* ScriptConverter._convert_command: the text of the command; the mode is
\* written unless it is replace.
_convert_command(ast, base_point) ==
    IF ast.type = "SetblockCommand"
    THEN [kind |-> "setblock", position |-> _convert_position(ast.position, base_point),
          block |-> _format_block(ast.block)]
    ELSE [kind |-> "fill", pos1 |-> _convert_position(ast.pos1, base_point),
          pos2 |-> _convert_position(ast.pos2, base_point),
          block |-> _format_block(ast.block),
          mode |-> IF ast.mode = "replace" THEN <<>> ELSE <<ast.mode>>]

\* The ASTs of the lines that have one: comments, blank lines and lines that
\* fail to parse carry None and are passed over by the bounds helper.
RECURSIVE AstsFrom(_, _)
AstsFrom(script, i) ==
    IF i > Len(script) THEN <<>>
    ELSE IF Skipped(script[i]) \/ parse(script[i]).raised # "none"
    THEN AstsFrom(script, i + 1)
    ELSE <<parse(script[i]).value>> \o AstsFrom(script, i + 1)

\* ScriptConverter._detect_base_point
_detect_base_point(script) ==
    LET b == _compute_coordinate_bounds(AstsFrom(script, 1)) IN
    IF b.min_x = PosInf THEN Returned(<<0, 0, 0>>)
    ELSE IF CanInt(b.min_y) /\ CanInt(b.min_z)
         THEN Returned(<<pyint(b.min_x), pyint(b.min_y), pyint(b.min_z)>>)
         ELSE Raised("OverflowError")

\* base_point=None
NoBase == <<>>

\* The header convert_file writes: twelve comment lines and a blank line.
Header == [i \in 1..13 |-> IF i = 13 THEN Blank ELSE Comment]

\* The line written for line i of the input: the line itself when it carries
\* no AST, the converted command otherwise.
ConvertedLine(line, base_point) ==
    IF Skipped(line) \/ parse(line).raised # "none" THEN line
    ELSE _convert_command(parse(line).value, base_point)

\* ScriptConverter.convert_file: base_point is NoBase or <<(x, y, z)>>. What it
\* returns or raises, and the lines of the output file.
convert_file(script, base_point, auto_detect) ==
    LET base == IF base_point = NoBase /\ auto_detect THEN _detect_base_point(script)
                ELSE IF base_point = NoBase THEN Returned(<<0, 0, 0>>)
                ELSE Returned(base_point[1])
        bbox == analyze_script(script)
    IN
    IF base.raised # "none" THEN [result |-> Raised(base.raised), output |-> <<>>]
    ELSE IF bbox.raised # "none" THEN [result |-> Raised(bbox.raised), output |-> <<>>]
    ELSE [result |-> Returned(<<base.value, bbox.value>>),
          output |-> Header \o [i \in 1..Len(script) |->
                                   ConvertedLine(script[i], base.value)]]

\* The coordinate token the grammar reads from a text: abs_coord is a
\* SIGNED_INT, rel_coord is "~" followed by an optional SIGNED_INT; the "~" is
\* not among the items.
ReadCoord(text) ==
    IF text.tilde THEN [rule |-> "rel_coord", items |-> text.number]
    ELSE [rule |-> "abs_coord", items |-> text.number]

\* A text that holds no number where a coordinate is due, such as "abc".
WordText == [tilde |-> FALSE, number |-> <<>>]

\* The texts the grammar takes for a position: three coordinates.
ReadsPosition(texts) ==
    Len(texts) = 3 /\ \A k \in 1..3 : texts[k].tilde \/ Len(texts[k].number) = 1

\* The letters of identifiers.
LetterChars == {"a", "e", "f", "l", "o", "p", "r", "s", "t", "u", "_"}

\* The texts the grammar takes for the value of a state: an identifier (true
\* and false among them) or an optional sign followed by digits.
AcceptsValue(s) ==
    \/ /\ Len(s) > 0
       /\ s[1] \in LetterChars
       /\ \A i \in 1..Len(s) : s[i] \in LetterChars \/ isdigit(<<s[i]>>)
    \/ isdigit(s)
    \/ Len(s) > 1 /\ s[1] \in SignChars /\ isdigit(Tail(s))

\* The texts the grammar takes for a block: a state list, when written, has
\* at least one pair and a value the grammar takes in each.
ReadsBlock(text) ==
    \/ Len(text.states) = 0
    \/ /\ Len(text.states[1]) > 0
       /\ \A i \in 1..Len(text.states[1]) : AcceptsValue(text.states[1][i][2])

ReadBlock(text) == BlockTree(NameTok(text.namespace, text.id), text.states)

\* The five mode keywords of fill.
FillModeWords == {"replace", "destroy", "hollow", "keep", "outline"}

\* The parse tree of the text of a line; a text the grammar does not take for
\* a setblock or a fill command is rejected.
ReadLine(line) ==
    IF line.kind \in {"blank", "comment"} THEN line
    ELSE IF /\ line.kind = "setblock"
            /\ ReadsPosition(line.position)
            /\ ReadsBlock(line.block)
    THEN SetblockLine([k \in 1..3 |-> ReadCoord(line.position[k])], ReadBlock(line.block))
    ELSE IF /\ line.kind = "fill"
            /\ ReadsPosition(line.pos1)
            /\ ReadsPosition(line.pos2)
            /\ ReadsBlock(line.block)
            /\ Len(line.mode) <= 1
            /\ \A i \in 1..Len(line.mode) : line.mode[i] \in FillModeWords
    THEN FillLine([k \in 1..3 |-> ReadCoord(line.pos1[k])],
                  [k \in 1..3 |-> ReadCoord(line.pos2[k])],
                  ReadBlock(line.block), line.mode)
    ELSE Invalid

-----------------------------------------------------------------------------
(* world/modifier.py: WorldModifier over the opened level *)

\* amulet's Block: properties is the dict of its property texts.
Block(namespace, base_name, properties) ==
    [namespace |-> namespace, base_name |-> base_name, properties |-> properties]

\* Block.namespaced_name
namespaced_name(block) == <<block.namespace, block.base_name>>

\* Block("minecraft", "air")
Air == Block("minecraft", "air", <<>>)

\* blockspec_to_amulet: the properties are the states as texts, "true" and
\* "false" for a bool.
blockspec_to_amulet(spec) ==
    IF Len(spec.states) = 0 \/ Len(spec.states[1]) = 0
    THEN Block(spec.namespace, spec.block_id, <<>>)
    ELSE Block(spec.namespace, spec.block_id,
               [i \in 1..Len(spec.states[1]) |->
                   <<spec.states[1][i][1],
                     IF spec.states[1][i][2].type = "bool"
                     THEN lower(str(spec.states[1][i][2]))
                     ELSE str(spec.states[1][i][2])>>])

\* world.get_block: a cell never written holds air.
get_block(w, c) == IF c \in DOMAIN w THEN w[c] ELSE Air

\* _place_block on every cell of a set.
PlaceAll(w, cells, block) ==
    [c \in (DOMAIN w) \cup cells |-> IF c \in cells THEN block ELSE w[c]]

\* A cell of a chunk that was never generated holds no block:
\* set_version_block and get_block raise there.
NoChunk == [chunk |-> "absent"]
ChunkExists(w, c) == c \notin DOMAIN w \/ w[c] # NoChunk

\* An operation given up with exception e: the level as the operation left
\* it and the cells it had written by then.
Failed(e, w, cells) == [raised |-> e, world |-> w, written |-> cells]

\* WorldModifier.set_block: any exception of the write is raised again as a
\* WorldOperationError.
set_block(w, x, y, z, block) ==
    IF ~ChunkExists(w, <<x, y, z>>) THEN Raised("WorldOperationError")
    ELSE Returned(PlaceAll(w, {<<x, y, z>>}, block))

Box(min_x, min_y, min_z, max_x, max_y, max_z) ==
    (min_x..max_x) \X (min_y..max_y) \X (min_z..max_z)

\* What a fill hands back: the count, the level after it and the cells written.
Filled(count, w, cells) == [count |-> count, world |-> w, written |-> cells]

\* The basic fill with the x loop stopping one short of max_x.
FillBasicShortOfMax(w, min_x, min_y, min_z, max_x, max_y, max_z, block) ==
    LET cells == Box(min_x, min_y, min_z, max_x - 1, max_y, max_z) IN
    Filled(Cardinality(cells), PlaceAll(w, cells, block), cells)

_fill_basic(w, min_x, min_y, min_z, max_x, max_y, max_z, block) ==
    LET cells == Box(min_x, min_y, min_z, max_x, max_y, max_z) IN
    Filled(Cardinality(cells), PlaceAll(w, cells, block), cells)

\* The hollow fill that leaves the interior as it was.
FillHollowInteriorKept(w, min_x, min_y, min_z, max_x, max_y, max_z, block) ==
    LET cells == Box(min_x, min_y, min_z, max_x, max_y, max_z)
        shell == {c \in cells : \/ c[1] = min_x \/ c[1] = max_x
                                \/ c[2] = min_y \/ c[2] = max_y
                                \/ c[3] = min_z \/ c[3] = max_z}
    IN
    Filled(Cardinality(shell), PlaceAll(w, shell, block), shell)

_fill_hollow(w, min_x, min_y, min_z, max_x, max_y, max_z, block) ==
    LET cells == Box(min_x, min_y, min_z, max_x, max_y, max_z)
        is_boundary(c) == \/ c[1] = min_x \/ c[1] = max_x
                          \/ c[2] = min_y \/ c[2] = max_y
                          \/ c[3] = min_z \/ c[3] = max_z
        shell == {c \in cells : is_boundary(c)}
    IN
    Filled(Cardinality(shell),
           PlaceAll(PlaceAll(w, cells \ shell, Air), shell, block), cells)

\* The keep fill that places the block on every cell and counts the air cells.
FillKeepOverwrites(w, min_x, min_y, min_z, max_x, max_y, max_z, block) ==
    LET cells == Box(min_x, min_y, min_z, max_x, max_y, max_z)
        empty == {c \in cells : namespaced_name(get_block(w, c)) = <<"minecraft", "air">>}
    IN
    Filled(Cardinality(empty), PlaceAll(w, cells, block), cells)

_fill_keep(w, min_x, min_y, min_z, max_x, max_y, max_z, block) ==
    LET cells == Box(min_x, min_y, min_z, max_x, max_y, max_z)
        empty == {c \in cells : namespaced_name(get_block(w, c)) = <<"minecraft", "air">>}
    IN
    Filled(Cardinality(empty), PlaceAll(w, empty, block), empty)

\* The outline fill walking the faces at the ends of the y axis instead of
\* the edges along z.
FillOutlineWithFaces(w, min_x, min_y, min_z, max_x, max_y, max_z, block) ==
    LET along_x == {<<x, y, z>> : x \in min_x..max_x, y \in {min_y, max_y},
                                  z \in {min_z, max_z}}
        along_y == {<<x, y, z>> : x \in {min_x, max_x}, y \in (min_y + 1)..(max_y - 1),
                                  z \in {min_z, max_z}}
        along_z == {<<x, y, z>> : x \in min_x..max_x, y \in {min_y, max_y},
                                  z \in (min_z + 1)..(max_z - 1)}
        count == 4 * (max_x - min_x + 1)
                 + 4 * Max2(max_y - min_y - 1, 0)
                 + 4 * Max2(max_z - min_z - 1, 0)
        cells == along_x \cup along_y \cup along_z
    IN
    Filled(count, PlaceAll(w, cells, block), cells)

\* Three loops over the edges; the count goes up by one on every placement,
\* whether or not the cell was placed before.
_fill_outline(w, min_x, min_y, min_z, max_x, max_y, max_z, block) ==
    LET along_x == {<<x, y, z>> : x \in min_x..max_x, y \in {min_y, max_y},
                                  z \in {min_z, max_z}}
        along_y == {<<x, y, z>> : x \in {min_x, max_x}, y \in (min_y + 1)..(max_y - 1),
                                  z \in {min_z, max_z}}
        along_z == {<<x, y, z>> : x \in {min_x, max_x}, y \in {min_y, max_y},
                                  z \in (min_z + 1)..(max_z - 1)}
        count == 4 * (max_x - min_x + 1)
                 + 4 * Max2(max_y - min_y - 1, 0)
                 + 4 * Max2(max_z - min_z - 1, 0)
        cells == along_x \cup along_y \cup along_z
    IN
    Filled(count, PlaceAll(w, cells, block), cells)

\* One turn of a fill's loop: the cell, the block and whether the turn places
\* it (the keep fill reads the cell first and places on air only).
Turn(c, block, places) == [cell |-> c, block |-> block, places |-> places]

\* The cells of the loops "for x ... for y ... for z" in the order visited.
Nested(min_x, min_y, min_z, max_x, max_y, max_z) ==
    LET ny == max_y - min_y + 1
        nz == max_z - min_z + 1
    IN
    [i \in 1..((max_x - min_x + 1) * ny * nz) |->
        <<min_x + ((i - 1) \div (ny * nz)),
          min_y + (((i - 1) \div nz) % ny),
          min_z + ((i - 1) % nz)>>]

\* The turns of one loop of the outline fill, "for a in range(lo, hi + 1):
\* for (b, c) in [four pairs]": the value of a and the place of the pair.
Edges(lo, hi) ==
    [i \in 1..(4 * Max2(hi - lo + 1, 0)) |-> <<lo + ((i - 1) \div 4), ((i - 1) % 4) + 1>>]

\* The turns a fill takes, in order, when no write raises.
Turns(w, min_x, min_y, min_z, max_x, max_y, max_z, block, mode) ==
    LET cells == Nested(min_x, min_y, min_z, max_x, max_y, max_z)
        First(k, lo, hi) == IF k \in {1, 2} THEN lo ELSE hi
        Second(k, lo, hi) == IF k \in {1, 3} THEN lo ELSE hi
        AlongX(e) == <<e[1], First(e[2], min_y, max_y), Second(e[2], min_z, max_z)>>
        AlongY(e) == <<First(e[2], min_x, max_x), e[1], Second(e[2], min_z, max_z)>>
        AlongZ(e) == <<First(e[2], min_x, max_x), Second(e[2], min_y, max_y), e[1]>>
        ex == Edges(min_x, max_x)
        ey == Edges(min_y + 1, max_y - 1)
        ez == Edges(min_z + 1, max_z - 1)
    IN
    IF mode = "hollow"
    THEN [i \in 1..Len(cells) |->
            Turn(cells[i],
                 IF \/ cells[i][1] = min_x \/ cells[i][1] = max_x
                    \/ cells[i][2] = min_y \/ cells[i][2] = max_y
                    \/ cells[i][3] = min_z \/ cells[i][3] = max_z
                 THEN block ELSE Air,
                 TRUE)]
    ELSE IF mode = "outline"
    THEN LET along == [i \in 1..Len(ex) |-> AlongX(ex[i])]
                      \o [i \in 1..Len(ey) |-> AlongY(ey[i])]
                      \o [i \in 1..Len(ez) |-> AlongZ(ez[i])]
         IN [i \in 1..Len(along) |-> Turn(along[i], block, TRUE)]
    ELSE IF mode \in {"replace", "destroy"}
    THEN [i \in 1..Len(cells) |-> Turn(cells[i], block, TRUE)]
    ELSE IF mode = "keep"
    THEN [i \in 1..Len(cells) |->
            Turn(cells[i], block,
                 /\ ChunkExists(w, cells[i])
                 /\ namespaced_name(get_block(w, cells[i])) = <<"minecraft", "air">>)]
    ELSE <<>>

\* A fill whose turn k raises: the turns before it have placed their blocks,
\* and fill_region raises the exception again as a WorldOperationError.
Interrupted(w, turns, k) ==
    LET done == {j \in 1..(k - 1) : turns[j].places}
        cells == {turns[j].cell : j \in done}
        Latest(c) == CHOOSE j \in done :
                        /\ turns[j].cell = c
                        /\ \A i \in done : turns[i].cell = c => i <= j
    IN
    Failed("WorldOperationError",
           [c \in (DOMAIN w) \cup cells |->
               IF c \in cells THEN turns[Latest(c)].block ELSE w[c]],
           cells)

\* The fill over its turns: completed when every cell can be read and written,
\* interrupted at the first turn on a cell that cannot.
FillOr(w, turns, completed) ==
    IF \E k \in 1..Len(turns) : ~ChunkExists(w, turns[k].cell)
    THEN Interrupted(w, turns,
                     CHOOSE k \in 1..Len(turns) :
                        /\ ~ChunkExists(w, turns[k].cell)
                        /\ \A j \in 1..(k - 1) : ChunkExists(w, turns[j].cell))
    ELSE completed

\* fill_region handing the corners on as given, the first as the minimum.
FillRegionCornersAsGiven(w, x1, y1, z1, x2, y2, z2, block, mode) ==
    IF mode = "hollow"
    THEN Returned(_fill_hollow(w, x1, y1, z1, x2, y2, z2, block))
    ELSE IF mode = "outline"
    THEN Returned(_fill_outline(w, x1, y1, z1, x2, y2, z2, block))
    ELSE IF mode \in {"replace", "destroy"}
    THEN Returned(_fill_basic(w, x1, y1, z1, x2, y2, z2, block))
    ELSE IF mode = "keep"
    THEN Returned(_fill_keep(w, x1, y1, z1, x2, y2, z2, block))
    ELSE Raised("WorldOperationError")

\* WorldModifier.fill_region
fill_region(w, x1, y1, z1, x2, y2, z2, block, mode) ==
    LET min_x == Min2(x1, x2)
        max_x == Max2(x1, x2)
        min_y == Min2(y1, y2)
        max_y == Max2(y1, y2)
        min_z == Min2(z1, z2)
        max_z == Max2(z1, z2)
    IN
    FillOr(w, Turns(w, min_x, min_y, min_z, max_x, max_y, max_z, block, mode),
           IF mode = "hollow"
           THEN Returned(_fill_hollow(w, min_x, min_y, min_z, max_x, max_y, max_z, block))
           ELSE IF mode = "outline"
           THEN Returned(_fill_outline(w, min_x, min_y, min_z, max_x, max_y, max_z, block))
           ELSE IF mode \in {"replace", "destroy"}
           THEN Returned(_fill_basic(w, min_x, min_y, min_z, max_x, max_y, max_z, block))
           ELSE IF mode = "keep"
           THEN Returned(_fill_keep(w, min_x, min_y, min_z, max_x, max_y, max_z, block))
           ELSE Raised("WorldOperationError"))

-----------------------------------------------------------------------------
(* api.py: WorldEditor *)

NoEditor == [open |-> FALSE]
WorldEditor(origin) == [open |-> TRUE, origin |-> origin]

\* The end of execute on a setblock: 1 when the write went through.
SetblockDone(w, c, placed) ==
    IF placed.raised # "none" THEN Failed(placed.raised, w, {})
    ELSE Returned(Filled(1, placed.value, {c}))

\* WorldEditor.execute: the number of blocks changed, or the error of the parser
\* or of the modifier together with the level as the failed command left it.
execute(w, origin, command) ==
    LET parsed == parse(command) IN
    IF parsed.raised # "none" THEN Failed(parsed.raised, w, {})
    ELSE LET ast == parsed.value IN
         IF ast.type = "SetblockCommand"
         THEN LET c == PosResolve(ast.position, origin) IN
              SetblockDone(w, c, set_block(w, c[1], c[2], c[3],
                                           blockspec_to_amulet(ast.block)))
         ELSE LET c1 == PosResolve(ast.pos1, origin)
                  c2 == PosResolve(ast.pos2, origin)
              IN fill_region(w, c1[1], c1[2], c1[3], c2[1], c2[2], c2[3],
                             blockspec_to_amulet(ast.block), ast.mode)

-----------------------------------------------------------------------------
(* The script files *)

\* The block "stone" in a script, and the Block placed for it.
StoneTree == BlockTree(NameTok(<<"minecraft">>, "stone"), <<>>)
Stone == Block("minecraft", "stone", <<>>)

Abs3(x, y, z) == <<AbsTok(x), AbsTok(y), AbsTok(z)>>

\* The script files the placer is handed, by path.
PairScript == <<SetblockLine(Abs3(0, 64, 0), StoneTree), SetblockLine(Abs3(1, 64, 0), StoneTree)>>
SlabScript == <<FillLine(Abs3(0, 64, 0), Abs3(2, 64, 0), StoneTree, <<>>),
               SetblockLine(Abs3(2, 65, 2), StoneTree)>>
RelScript == <<Comment, SetblockLine(<<Tilde, Tilde, Tilde>>, StoneTree), Invalid>>
MixedScript == <<SetblockLine(<<AbsTok(0), Tilde, AbsTok(0)>>, StoneTree)>>

Library == {"pair.txt", "slab.txt", "rel.txt", "mixed.txt"}

\* open(script_path): the lines of the file.
open(script_path) ==
    IF script_path = "pair.txt" THEN PairScript
    ELSE IF script_path = "slab.txt" THEN SlabScript
    ELSE IF script_path = "rel.txt" THEN RelScript
    ELSE MixedScript

-----------------------------------------------------------------------------
(* placer.py: StructurePlacer *)

AnchorValues == {"corner", "center", "base-center"}
DirectionValues == {"north", "south", "east", "west", "up", "down"}

PlacementResult(blocks_placed, bounding_box, origin_used) ==
    [blocks_placed |-> blocks_placed, bounding_box |-> bounding_box,
     origin_used |-> origin_used]

\* The anchor rule with the base-center anchor lowered like the center anchor.
OriginFromAnchorBaseLowered(pos, bbox, anchor) ==
    IF anchor = "corner" THEN Returned(<<pos[1], pos[2], pos[3]>>)
    ELSE IF anchor \in {"center", "base-center"}
    THEN Returned(<<pos[1] - (width(bbox) \div 2),
                    pos[2] - (height(bbox) \div 2),
                    pos[3] - (depth(bbox) \div 2)>>)
    ELSE Raised("PlacementError")

\* StructurePlacer._calculate_origin_from_anchor
_calculate_origin_from_anchor(pos, bbox, anchor) ==
    IF anchor = "corner" THEN Returned(<<pos[1], pos[2], pos[3]>>)
    ELSE IF anchor = "center"
    THEN Returned(<<pos[1] - (width(bbox) \div 2),
                    pos[2] - (height(bbox) \div 2),
                    pos[3] - (depth(bbox) \div 2)>>)
    ELSE IF anchor = "base-center"
    THEN Returned(<<pos[1] - (width(bbox) \div 2),
                    pos[2],
                    pos[3] - (depth(bbox) \div 2)>>)
    ELSE Raised("PlacementError")

\* The adjacency rule with west measured by the reference's width.
AdjacentOriginWestByReference(relative_to, bbox, ref_bbox, direction, gap) ==
    LET x == relative_to[1]
        y == relative_to[2]
        z == relative_to[3]
    IN
    IF direction = "east" THEN Returned(<<x + width(ref_bbox) + gap, y, z>>)
    ELSE IF direction = "west" THEN Returned(<<x - width(ref_bbox) - gap, y, z>>)
    ELSE IF direction = "south" THEN Returned(<<x, y, z + depth(ref_bbox) + gap>>)
    ELSE IF direction = "north" THEN Returned(<<x, y, z - depth(bbox) - gap>>)
    ELSE IF direction = "up" THEN Returned(<<x, y + height(ref_bbox) + gap, z>>)
    ELSE IF direction = "down" THEN Returned(<<x, y - height(bbox) - gap, z>>)
    ELSE Raised("PlacementError")

\* The adjacency rule with east measured by the placed structure's own width.
AdjacentOriginEastByOwnWidth(relative_to, bbox, ref_bbox, direction, gap) ==
    LET x == relative_to[1]
        y == relative_to[2]
        z == relative_to[3]
    IN
    IF direction = "east" THEN Returned(<<x + width(bbox) + gap, y, z>>)
    ELSE IF direction = "west" THEN Returned(<<x - width(bbox) - gap, y, z>>)
    ELSE IF direction = "south" THEN Returned(<<x, y, z + depth(ref_bbox) + gap>>)
    ELSE IF direction = "north" THEN Returned(<<x, y, z - depth(bbox) - gap>>)
    ELSE IF direction = "up" THEN Returned(<<x, y + height(ref_bbox) + gap, z>>)
    ELSE IF direction = "down" THEN Returned(<<x, y - height(bbox) - gap, z>>)
    ELSE Raised("PlacementError")

\* StructurePlacer._calculate_adjacent_origin
_calculate_adjacent_origin(relative_to, bbox, ref_bbox, direction, gap) ==
    LET x == relative_to[1]
        y == relative_to[2]
        z == relative_to[3]
    IN
    IF direction = "east" THEN Returned(<<x + width(ref_bbox) + gap, y, z>>)
    ELSE IF direction = "west" THEN Returned(<<x - width(bbox) - gap, y, z>>)
    ELSE IF direction = "south" THEN Returned(<<x, y, z + depth(ref_bbox) + gap>>)
    ELSE IF direction = "north" THEN Returned(<<x, y, z - depth(bbox) - gap>>)
    ELSE IF direction = "up" THEN Returned(<<x, y + height(ref_bbox) + gap, z>>)
    ELSE IF direction = "down" THEN Returned(<<x, y - height(bbox) - gap, z>>)
    ELSE Raised("PlacementError")

\* The replay loop giving up at the first line that raises.
RECURSIVE ExecFromAborting(_, _, _, _)
ExecFromAborting(acc, script, i, origin) ==
    IF i > Len(script) THEN acc
    ELSE IF Skipped(script[i]) THEN ExecFromAborting(acc, script, i + 1, origin)
    ELSE LET r == execute(acc.world, origin, script[i]) IN
         IF r.raised # "none" THEN acc
         ELSE ExecFromAborting(Filled(acc.count + r.value.count, r.value.world,
                                      acc.written \cup r.value.written),
                               script, i + 1, origin)

\* The loop of _execute_script from line i on: a line that raises is skipped,
\* the level staying as the failed command left it.
RECURSIVE ExecFrom(_, _, _, _)
ExecFrom(acc, script, i, origin) ==
    IF i > Len(script) THEN acc
    ELSE IF Skipped(script[i]) THEN ExecFrom(acc, script, i + 1, origin)
    ELSE LET r == execute(acc.world, origin, script[i]) IN
         IF r.raised # "none"
         THEN ExecFrom(Filled(acc.count, r.world, acc.written \cup r.written),
                       script, i + 1, origin)
         ELSE ExecFrom(Filled(acc.count + r.value.count, r.value.world,
                              acc.written \cup r.value.written),
                       script, i + 1, origin)

\* StructurePlacer._execute_script: the editor is opened on first use and its
\* origin set; the lines are then executed in file order.
_execute_script(w, script, origin) == ExecFrom(Filled(0, w, {}), script, 1, origin)

\* The editor property creating a WorldEditor on every use.
EditorLoadsOnEveryUse(ed, after) ==
    IF after.open THEN <<"load_level">> ELSE <<>>

\* StructurePlacer.editor, as a placement uses it: the calls made on the world
\* by a placement that found the editor ed and left the editor after. A
\* WorldEditor is created, and the level loaded, only when there is none.
EditorLoads(ed, after) ==
    IF after.open /\ ~ed.open THEN <<"load_level">> ELSE <<>>

\* What save, close and __exit__ leave behind: the editor of the placer and
\* the calls made on the world.
Released(ed, calls) == [editor |-> ed, calls |-> calls]

\* StructurePlacer.save
save(ed) == Released(ed, IF ed.open THEN <<"save">> ELSE <<>>)

\* StructurePlacer.close
close(ed) ==
    IF ed.open THEN Released(NoEditor, <<"close">>) ELSE Released(ed, <<>>)

\* StructurePlacer.__exit__: save(), then close().
__exit__(ed) ==
    LET saved == save(ed)
        closed == close(saved.editor)
    IN Released(closed.editor, saved.calls \o closed.calls)

-----------------------------------------------------------------------------
(* cli.py: batch *)

\* What batch has done so far: the totals, the level, what it echoed for each
\* line executed, and the calls it made on the editor.
Batched(total, errors, w, echoed, calls) ==
    [total |-> total, errors |-> errors, world |-> w, echoed |-> echoed,
     calls |-> calls]

\* The loop of batch giving up at the first command that raises.
RECURSIVE BatchFromAborting(_, _, _, _)
BatchFromAborting(acc, commands_file, i, origin) ==
    IF i > Len(commands_file) THEN acc
    ELSE IF Skipped(commands_file[i])
    THEN BatchFromAborting(acc, commands_file, i + 1, origin)
    ELSE LET r == execute(acc.world, origin, commands_file[i]) IN
         IF r.raised # "none"
         THEN Batched(acc.total, acc.errors + 1, r.world,
                      Append(acc.echoed, [line |-> i, error |-> r.raised]),
                      Append(acc.calls, "execute"))
         ELSE BatchFromAborting(
                  Batched(acc.total + r.value.count, acc.errors, r.value.world,
                          Append(acc.echoed, [line |-> i, error |-> "none",
                                              count |-> r.value.count]),
                          Append(acc.calls, "execute")),
                  commands_file, i + 1, origin)

\* The loop of batch from line i on: blank lines and comments are passed
\* over, a command that raises an MCCommandError is reported and counted.
RECURSIVE BatchFrom(_, _, _, _)
BatchFrom(acc, commands_file, i, origin) ==
    IF i > Len(commands_file) THEN acc
    ELSE IF Skipped(commands_file[i]) THEN BatchFrom(acc, commands_file, i + 1, origin)
    ELSE LET r == execute(acc.world, origin, commands_file[i]) IN
         IF r.raised # "none"
         THEN BatchFrom(
                  Batched(acc.total, acc.errors + 1, r.world,
                          Append(acc.echoed, [line |-> i, error |-> r.raised]),
                          Append(acc.calls, "execute")),
                  commands_file, i + 1, origin)
         ELSE BatchFrom(
                  Batched(acc.total + r.value.count, acc.errors, r.value.world,
                          Append(acc.echoed, [line |-> i, error |-> "none",
                                              count |-> r.value.count]),
                          Append(acc.calls, "execute")),
                  commands_file, i + 1, origin)

\* The end of batch: the editor saves after the loop, the with block closes
\* it, and the exit status is 1 when a command failed.
BatchEnd(done) ==
    [total |-> done.total, errors |-> done.errors, world |-> done.world,
     echoed |-> done.echoed, calls |-> done.calls \o <<"save", "close">>,
     saved |-> done.world, status |-> IF done.errors > 0 THEN 1 ELSE 0]

\* batch: the commands of a file executed in one editor on the world.
batch(w, commands_file, origin) ==
    BatchEnd(BatchFrom(Batched(0, 0, w, <<>>, <<"WorldEditor">>), commands_file, 1,
                       origin))

\* What a call on the placer leaves behind: its result (or the exception), the
\* level, the editor and the cells it wrote.
Outcome(result, w, ed, cells) ==
    [result |-> result, world |-> w, editor |-> ed, written |-> cells]

\* The end of place_at and of place_adjacent: the script is executed at the
\* origin and the PlacementResult returned.
Executed(bbox, origin, done) ==
    Outcome(Returned(PlacementResult(done.count, bbox, origin)),
            done.world, WorldEditor(origin), done.written)

\* The same from the computed origin on, which may have raised.
ExecutedAt(w, ed, script_path, bbox, origin) ==
    IF origin.raised # "none" THEN Outcome(Raised(origin.raised), w, ed, {})
    ELSE Executed(bbox, origin.value, _execute_script(w, open(script_path), origin.value))

\* place_at converting the anchor after it has executed the script at the
\* position.
PlaceAtExecutesFirst(w, ed, script_path, pos, anchor, bbox) ==
    IF bbox.raised # "none" THEN Outcome(Raised(bbox.raised), w, ed, {})
    ELSE IF anchor \notin AnchorValues
    THEN Outcome(Raised("ValueError"),
                 _execute_script(w, open(script_path), pos).world, WorldEditor(pos),
                 _execute_script(w, open(script_path), pos).written)
    ELSE ExecutedAt(w, ed, script_path, bbox.value,
                    _calculate_origin_from_anchor(pos, bbox.value, anchor))

\* place_at from the bounding box on, which may have raised.
PlaceAtFromBox(w, ed, script_path, pos, anchor, bbox) ==
    IF bbox.raised # "none" THEN Outcome(Raised(bbox.raised), w, ed, {})
    ELSE IF anchor \notin AnchorValues THEN Outcome(Raised("ValueError"), w, ed, {})
    ELSE ExecutedAt(w, ed, script_path, bbox.value,
                    _calculate_origin_from_anchor(pos, bbox.value, anchor))

\* StructurePlacer.place_at
place_at(w, ed, script_path, pos, anchor) ==
    PlaceAtFromBox(w, ed, script_path, pos, anchor, get_bounding_box(open(script_path)))

\* reference_script=None
NoScript == "None"

\* place_adjacent from the two bounding boxes on, either of which may have
\* raised; the direction is converted between the two.
PlaceAdjacentFromBoxes(w, ed, script_path, relative_to, direction, gap, bbox, ref_bbox) ==
    IF bbox.raised # "none" THEN Outcome(Raised(bbox.raised), w, ed, {})
    ELSE IF direction \notin DirectionValues
    THEN Outcome(Raised("ValueError"), w, ed, {})
    ELSE IF ref_bbox.raised # "none" THEN Outcome(Raised(ref_bbox.raised), w, ed, {})
    ELSE ExecutedAt(w, ed, script_path, bbox.value,
                    _calculate_adjacent_origin(relative_to, bbox.value, ref_bbox.value,
                                               direction, gap))

\* StructurePlacer.place_adjacent
place_adjacent(w, ed, script_path, relative_to, direction, gap, reference_script) ==
    PlaceAdjacentFromBoxes(w, ed, script_path, relative_to, direction, gap,
                           get_bounding_box(open(script_path)),
                           IF reference_script # NoScript
                           THEN get_bounding_box(open(reference_script))
                           ELSE Returned(BoundingBox(0, 0, 0, 0, 0, 0)))

\* The grid walked column by column.
GridPositionColumnMajor(k, bbox, start, cols, x_spacing, z_spacing) ==
    LET row == k % cols
        col == k \div cols
        x_offset == col * (width(bbox) + x_spacing)
        z_offset == row * (depth(bbox) + z_spacing)
    IN <<start[1] + x_offset, start[2], start[3] + z_offset>>

\* The position of grid cell k, the cells counted in row-major order (row
\* outer, column inner).
GridPosition(k, bbox, start, cols, x_spacing, z_spacing) ==
    LET row == k \div cols
        col == k % cols
        x_offset == col * (width(bbox) + x_spacing)
        z_offset == row * (depth(bbox) + z_spacing)
    IN <<start[1] + x_offset, start[2], start[3] + z_offset>>

\* The results of place_grid with the result of one more place_at appended; an
\* exception place_at raises ends the call.
GridAppend(acc, one) ==
    IF one.result.raised # "none"
    THEN Outcome(Raised(one.result.raised), one.world, one.editor, acc.written)
    ELSE Outcome(Returned(Append(acc.result.value, one.result.value)),
                 one.world, one.editor, acc.written \cup one.written)

\* The loop of place_grid from cell k on; acc.result.value is the list of the
\* results so far.
RECURSIVE GridFrom(_, _, _, _, _, _, _, _)
GridFrom(acc, k, script_path, bbox, start, cols, rows, rest) ==
    IF k >= rows * cols \/ acc.result.raised # "none" THEN acc
    ELSE GridFrom(GridAppend(acc, place_at(acc.world, acc.editor, script_path,
                                           GridPosition(k, bbox, start, cols,
                                                        rest.x_spacing, rest.z_spacing),
                                           rest.anchor)),
                  k + 1, script_path, bbox, start, cols, rows, rest)

\* StructurePlacer.place_grid
place_grid(w, ed, script_path, start, grid_size, spacing, anchor) ==
    LET bbox == get_bounding_box(open(script_path)) IN
    IF bbox.raised # "none" THEN Outcome(Raised(bbox.raised), w, ed, {})
    ELSE IF anchor \notin AnchorValues THEN Outcome(Raised("ValueError"), w, ed, {})
    ELSE GridFrom(Outcome(Returned(<<>>), w, ed, {}), 0, script_path, bbox.value,
                  start, grid_size[1], grid_size[2],
                  [x_spacing |-> spacing[1], z_spacing |-> spacing[2],
                   anchor |-> anchor])

-----------------------------------------------------------------------------
(* Inputs *)

\* The coordinate tokens the analysed scripts are written with.
XToks == {AbsTok(0), AbsTok(2), RelTok(1)}
YToks == {AbsTok(64), AbsTok(65), Tilde}
ZToks == {AbsTok(0), Tilde}

SetblockLines == {SetblockLine(<<x, y, z>>, StoneTree) : x \in XToks, y \in YToks, z \in ZToks}

FillFrom == {Abs3(0, 64, 0), <<RelTok(1), AbsTok(65), AbsTok(0)>>,
             <<AbsTok(2), Tilde, Tilde>>}
FillTo == {Abs3(2, 65, 2), <<AbsTok(0), AbsTok(64), Tilde>>,
           <<Tilde, AbsTok(64), AbsTok(0)>>}

FillLines == {FillLine(p1, p2, StoneTree, m) : p1 \in FillFrom, p2 \in FillTo,
                                           m \in {<<>>, <<"hollow">>}}

Lines == SetblockLines \cup FillLines \cup {Blank, Comment, Invalid}

Scripts == UNION {[1..n -> Lines] : n \in 0..MaxLines}

Levels == {64, 65, 66}

Positions == {<<10, 70, 10>>, <<0, 64, 0>>}
Gaps == {0, MaxGap}
GridSizes == {1, MaxGrid} \X {1, MaxGrid}
Spacings == {<<MaxGap, 0>>, <<MaxGap, MaxGap>>}

-----------------------------------------------------------------------------
(* The structure placer: one StructurePlacer over one world *)

NoCall == [op |-> "none"]
EmptyWorld == [c \in {} |-> Air]

Init ==
    /\ world = EmptyWorld
    /\ editor = NoEditor
    /\ last = NoCall
    /\ ncalls = 0

Placed(o, call) ==
    /\ world' = o.world
    /\ editor' = o.editor
    /\ last' = call
    /\ ncalls' = ncalls + 1

PlaceAt(s, p, a) ==
    /\ ncalls < MaxCalls
    /\ \E o \in {place_at(world, editor, s, p, a)} :
       Placed(o, [op |-> "place_at", script_path |-> s, position |-> p, anchor |-> a,
                  result |-> o.result, written |-> o.written])

PlaceAdjacent(s, r, d, g, ref) ==
    /\ ncalls < MaxCalls
    /\ \E o \in {place_adjacent(world, editor, s, r, d, g, ref)} :
       Placed(o, [op |-> "place_adjacent", script_path |-> s, relative_to |-> r,
                  direction |-> d, gap |-> g, reference_script |-> ref,
                  result |-> o.result, written |-> o.written])

PlaceGrid(s, p, gs, sp, a) ==
    /\ ncalls < MaxCalls
    /\ \E o \in {place_grid(world, editor, s, p, gs, sp, a)} :
       Placed(o, [op |-> "place_grid", script_path |-> s, start |-> p, grid_size |-> gs,
                  spacing |-> sp, anchor |-> a,
                  result |-> o.result, written |-> o.written])

Next ==
    \/ \E s \in Library, p \in Positions, a \in AnchorValues : PlaceAt(s, p, a)
    \/ \E s \in Library \ {"pair.txt"}, gs \in GridSizes, sp \in Spacings,
          a \in AnchorValues : PlaceGrid(s, <<0, 64, 0>>, gs, sp, a)

Spec == Init /\ [][Next]_vars

-----------------------------------------------------------------------------
(* A row of structures built with place_adjacent: the first is placed next   *)
(* to a fixed point, with or without a reference script; each further one is *)
(* placed next to the origin of the one placed last, with the script of that *)
(* one as the reference.                                                     *)

\* The last call returned a placement.
HasPlaced == last.op = "place_adjacent" /\ last.result.raised = "none"

PlaceFirst ==
    /\ ~HasPlaced
    /\ \E s \in Library, d \in DirectionValues, g \in Gaps,
          ref \in Library \cup {NoScript} : PlaceAdjacent(s, <<0, 64, 0>>, d, g, ref)

PlaceNextTo ==
    /\ HasPlaced
    /\ \E s \in Library, d \in DirectionValues, g \in Gaps :
          PlaceAdjacent(s, last.result.value.origin_used, d, g, last.script_path)

NextAdjacent == PlaceFirst \/ PlaceNextTo

SpecAdjacent == Init /\ [][NextAdjacent]_vars

-----------------------------------------------------------------------------
(* The coordinate resolver applied to one position and one origin *)

ResolveCoords == {Coordinate(v, r) : v \in (-MaxVal)..MaxVal, r \in BOOLEAN}
ResolvePositions == {Position(cx, cy, cz) : cx \in ResolveCoords, cy \in ResolveCoords,
                                            cz \in ResolveCoords}
Origins == {<<0, 0, 0>>, <<10, 70, 10>>, <<-3, 64, 5>>}

InitResolve ==
    /\ world = EmptyWorld
    /\ editor = NoEditor
    /\ last \in {[op |-> "position", pos |-> p, origin |-> o] :
                 p \in ResolvePositions, o \in Origins}
    /\ ncalls = 0

Resolve ==
    /\ last.op = "position"
    /\ last' = [op |-> "resolve", pos |-> last.pos, origin |-> last.origin,
                result |-> PosResolve(last.pos, last.origin)]
    /\ ncalls' = ncalls + 1
    /\ UNCHANGED <<world, editor>>

NextResolve == Resolve

SpecResolve == InitResolve /\ [][NextResolve]_vars

-----------------------------------------------------------------------------
(* The structure analyzer run on one script file *)

InitAnalyze ==
    /\ world = EmptyWorld
    /\ editor = NoEditor
    /\ last \in {[op |-> "script", script |-> s] : s \in Scripts}
    /\ ncalls = 0

Analyzed(call) ==
    /\ last.op = "script"
    /\ last' = call
    /\ ncalls' = ncalls + 1
    /\ UNCHANGED <<world, editor>>

GetBoundingBox ==
    Analyzed([op |-> "get_bounding_box", script |-> last.script,
              result |-> get_bounding_box(last.script)])

GetBaseFootprint ==
    Analyzed([op |-> "get_base_footprint", script |-> last.script,
              result |-> get_base_footprint(last.script)])

GetSliceAtY(y) ==
    Analyzed([op |-> "get_slice_at_y", script |-> last.script, y |-> y,
              result |-> get_slice_at_y(last.script, y)])

NextAnalyze ==
    \/ GetBoundingBox
    \/ GetBaseFootprint
    \/ \E y \in Levels : GetSliceAtY(y)

SpecAnalyze == InitAnalyze /\ [][NextAnalyze]_vars

TypeOK == ncalls \in 0..MaxCalls

-----------------------------------------------------------------------------
(* The replay of one script file at one origin, on a level never written *)

GlassTree == BlockTree(NameTok(<<"minecraft">>, "glass"), <<>>)
Glass == Block("minecraft", "glass", <<>>)

ReplayLines ==
    { Blank, Comment, Invalid,
      SetblockLine(<<Tilde, Tilde, Tilde>>, StoneTree),
      SetblockLine(<<RelTok(1), Tilde, Tilde>>, GlassTree),
      SetblockLine(Abs3(0, 64, 0), GlassTree),
      FillLine(<<Tilde, Tilde, Tilde>>, <<RelTok(1), Tilde, RelTok(1)>>, StoneTree, <<>>),
      FillLine(<<RelTok(1), Tilde, Tilde>>, <<RelTok(-1), Tilde, Tilde>>, GlassTree,
               <<"keep">>) }

ReplayScripts == UNION {[1..n -> ReplayLines] : n \in 0..MaxLines}

ReplayOrigins == {<<0, 64, 0>>, <<10, 70, 10>>}

InitReplay ==
    /\ world = EmptyWorld
    /\ editor = NoEditor
    /\ last \in {[op |-> "script", script |-> s, origin |-> o] :
                 s \in ReplayScripts, o \in ReplayOrigins}
    /\ ncalls = 0

ExecuteScript ==
    /\ last.op = "script"
    /\ \E done \in {_execute_script(world, last.script, last.origin)} :
         /\ world' = done.world
         /\ editor' = WorldEditor(last.origin)
         /\ last' = [op |-> "_execute_script", script |-> last.script,
                     origin |-> last.origin, before |-> world,
                     blocks_placed |-> done.count, written |-> done.written]
    /\ ncalls' = ncalls + 1

NextReplay == ExecuteScript

SpecReplay == InitReplay /\ [][NextReplay]_vars

-----------------------------------------------------------------------------
(* The batch command and the replay on a world with a chunk never generated *)

\* A world with no chunk east of x = 0 around the first origin, and east of
\* x = 10 around the second.
Ungenerated ==
    [c \in Box(1, 64, 0, 1, 64, 1) \cup Box(11, 70, 10, 11, 70, 11) |-> NoChunk]

InitBatch ==
    /\ world \in {EmptyWorld, Ungenerated}
    /\ editor = NoEditor
    /\ last \in {[op |-> "script", script |-> s, origin |-> o] :
                 s \in ReplayScripts, o \in ReplayOrigins}
    /\ ncalls = 0

RunBatch ==
    /\ last.op = "script"
    /\ \E done \in {batch(world, last.script, last.origin)} :
         /\ world' = done.world
         /\ last' = [op |-> "batch", script |-> last.script, origin |-> last.origin,
                     before |-> world, total |-> done.total, errors |-> done.errors,
                     echoed |-> done.echoed, calls |-> done.calls,
                     saved |-> done.saved, status |-> done.status]
    /\ ncalls' = ncalls + 1
    /\ UNCHANGED editor

NextBatch == RunBatch \/ ExecuteScript

SpecBatch == InitBatch /\ [][NextBatch]_vars

-----------------------------------------------------------------------------
(* One StructurePlacer placing, saving, closing and leaving its with block *)

InitSession ==
    /\ world = EmptyWorld
    /\ editor = NoEditor
    /\ last = [op |-> "__init__", calls |-> <<>>]
    /\ ncalls = 0

SessionPlaceAt(s, p, a) ==
    /\ ncalls < MaxSteps
    /\ \E o \in {place_at(world, editor, s, p, a)} :
         /\ world' = o.world
         /\ editor' = o.editor
         /\ last' = [op |-> "place_at", script_path |-> s, position |-> p,
                     anchor |-> a, result |-> o.result,
                     calls |-> last.calls \o EditorLoads(editor, o.editor)]
    /\ ncalls' = ncalls + 1

SessionEnds(op, o) ==
    /\ ncalls < MaxSteps
    /\ editor' = o.editor
    /\ last' = [op |-> op, calls |-> last.calls \o o.calls]
    /\ ncalls' = ncalls + 1
    /\ UNCHANGED world

SessionSave == SessionEnds("save", save(editor))

SessionClose == SessionEnds("close", close(editor))

SessionExit == SessionEnds("__exit__", __exit__(editor))

NextSession ==
    \/ \E s \in {"slab.txt", "rel.txt"}, p \in Positions, a \in {"corner", "middle"} :
          SessionPlaceAt(s, p, a)
    \/ SessionSave
    \/ SessionClose
    \/ SessionExit

SpecSession == InitSession /\ [][NextSession]_vars

-----------------------------------------------------------------------------
(* The placer called with anchor and direction strings, recognized or not *)

AnchorArgs == AnchorValues \cup {"middle"}
DirectionArgs == DirectionValues \cup {"sideways"}

NextArguments ==
    \/ \E s \in Library \ {"mixed.txt"}, a \in AnchorArgs : PlaceAt(s, <<0, 64, 0>>, a)
    \/ \E d \in DirectionArgs, g \in Gaps :
          PlaceAdjacent("rel.txt", <<0, 64, 0>>, d, g, NoScript)
    \/ \E a \in AnchorArgs :
          PlaceGrid("rel.txt", <<0, 64, 0>>, <<1, MaxGrid>>, <<MaxGap, 0>>, a)

SpecArguments == Init /\ [][NextArguments]_vars

-----------------------------------------------------------------------------
(* fill_region applied to one box in one mode, on a level that is empty or   *)
(* holds glass on every other cell                                           *)

FillCorners == (0..MaxDim) \X (0..MaxDim) \X (0..MaxDim)

FillModes == {"replace", "destroy", "hollow", "outline", "keep"}

Chequered == [c \in {d \in FillCorners : (d[1] + d[2] + d[3]) % 2 = 1} |-> Glass]

InitFill ==
    /\ world \in {EmptyWorld, Chequered}
    /\ editor = NoEditor
    /\ last \in {[op |-> "box", c1 |-> c1, c2 |-> c2, mode |-> m] :
                 c1 \in FillCorners, c2 \in FillCorners, m \in FillModes}
    /\ ncalls = 0

FillRegion ==
    /\ last.op = "box"
    /\ \E r \in {fill_region(world, last.c1[1], last.c1[2], last.c1[3],
                             last.c2[1], last.c2[2], last.c2[3], Stone, last.mode)} :
         /\ r.raised = "none"
         /\ world' = r.value.world
         /\ last' = [op |-> "fill_region", c1 |-> last.c1, c2 |-> last.c2,
                     mode |-> last.mode, before |-> world, count |-> r.value.count,
                     written |-> r.value.written]
    /\ ncalls' = ncalls + 1
    /\ UNCHANGED editor

NextFill == FillRegion

SpecFill == InitFill /\ [][NextFill]_vars

-----------------------------------------------------------------------------
(* The converter run on one script file *)

BasePoints == {NoBase, << <<1, 60, -1>> >>}

InitConvert ==
    /\ world = EmptyWorld
    /\ editor = NoEditor
    /\ last \in {[op |-> "script", script |-> s, base_point |-> b, auto_detect |-> a] :
                 s \in Scripts, b \in BasePoints, a \in BOOLEAN}
    /\ ncalls = 0

ConvertFile ==
    /\ last.op = "script"
    /\ \E done \in {convert_file(last.script, last.base_point, last.auto_detect)} :
         last' = [op |-> "convert_file", script |-> last.script,
                  base_point |-> last.base_point, auto_detect |-> last.auto_detect,
                  result |-> done.result, output |-> done.output]
    /\ ncalls' = ncalls + 1
    /\ UNCHANGED <<world, editor>>

NextConvert == ConvertFile

SpecConvert == InitConvert /\ [][NextConvert]_vars

-----------------------------------------------------------------------------
(* The parser run on the text of one position: three coordinates, each a     *)
(* signed number, "~", or "~" followed by a signed number                    *)

NumberTexts == {[sign |-> sg, digits |-> n] : sg \in {"", "+", "-"}, n \in 0..MaxVal}

CoordTexts ==
    {[tilde |-> t, number |-> <<n>>] : t \in BOOLEAN, n \in NumberTexts}
    \cup {TildeText}

InitParse ==
    /\ world = EmptyWorld
    /\ editor = NoEditor
    /\ last \in {[op |-> "text", texts |-> <<tx, ty, tz>>] :
                 tx \in CoordTexts, ty \in CoordTexts, tz \in CoordTexts}
    /\ ncalls = 0

ParsePosition ==
    /\ last.op = "text"
    /\ last' = [op |-> "position", texts |-> last.texts,
                result |-> position([k \in 1..3 |-> ReadCoord(last.texts[k])])]
    /\ ncalls' = ncalls + 1
    /\ UNCHANGED <<world, editor>>

NextParse == ParsePosition

SpecParse == InitParse /\ [][NextParse]_vars

-----------------------------------------------------------------------------
(* The parser run on the text of one command, and the converter run on the   *)
(* command parsed from it                                                    *)

\* The characters the texts of state values are spelled out of.
ValueChars == {"-", "+", "0", "1", "a"}

TopText == <<"t", "o", "p">>

ValueTexts ==
    UNION {[1..n -> ValueChars] : n \in 1..MaxText}
    \cup {TrueText, FalseText, TopText, <<"T", "r", "u", "e">>}

AbsText(n) == [tilde |-> FALSE, number |-> <<NumberText(n)>>]

\* "0 64", "0 64 0", "abc 0 0" and "~ ~+1 -1"
PositionTexts ==
    { <<AbsText(0), AbsText(64)>>,
      <<AbsText(0), AbsText(64), AbsText(0)>>,
      <<WordText, AbsText(0), AbsText(0)>>,
      <<TildeText, TildeSignedText(1), AbsText(-1)>> }

\* No state list, "[]", and lists of one and of two pairs.
StateLists ==
    {<<>>, << <<>> >>}
    \cup {<< << <<"powered", v>> >> >> :
             v \in {TrueText, FalseText, TopText, <<"1">>, <<"-", "1">>, <<"+", "1">>}}
    \cup { << << <<"half", TopText>>, <<"waterlogged", TrueText>> >> >>,
           << << <<"waterlogged", FalseText>>, <<"delay", <<"-", "1">> >> >> >>,
           << << <<"half", TopText>>, <<"half", <<"1">> >> >> >> }

BlockTexts ==
    {BlockText(n, "oak_stairs", st) : n \in {<<>>, <<"minecraft">>, <<"mod">>},
                                      st \in StateLists}

ModeTexts == {<<>>} \cup {<<m>> : m \in FillModeWords \cup {"bogus"}}

CommandTexts ==
    {[kind |-> "setblock", position |-> <<AbsText(0), AbsText(64), AbsText(0)>>,
      block |-> BlockText(<<>>, "lever", << << <<"powered", v>> >> >>)] :
        v \in ValueTexts}
    \cup {[kind |-> k, position |-> p, block |-> b] :
             k \in {"setblock", "invalid"}, p \in PositionTexts, b \in BlockTexts}
    \cup {[kind |-> "fill", pos1 |-> p, pos2 |-> <<AbsText(1), TildeText, AbsText(1)>>,
           block |-> b, mode |-> m] :
             p \in PositionTexts, b \in BlockTexts, m \in ModeTexts}

InitCommand ==
    /\ world = EmptyWorld
    /\ editor = NoEditor
    /\ last \in {[op |-> "command", text |-> t] : t \in CommandTexts}
    /\ ncalls = 0

\* CommandParser.parse on the text.
ParseText ==
    /\ last.op = "command"
    /\ last' = [op |-> "parse", text |-> last.text, result |-> parse(ReadLine(last.text))]
    /\ ncalls' = ncalls + 1
    /\ UNCHANGED <<world, editor>>

\* ScriptConverter._convert_command on the command parsed, and the line it
\* gives parsed again.
ConvertParsed(base_point) ==
    /\ last.op = "parse"
    /\ last.result.raised = "none"
    /\ \E line \in {_convert_command(last.result.value, base_point)} :
         last' = [op |-> "_convert_command", ast |-> last.result.value,
                  base_point |-> base_point, line |-> line,
                  result |-> parse(ReadLine(line))]
    /\ ncalls' = ncalls + 1
    /\ UNCHANGED <<world, editor>>

NextCommand ==
    \/ ParseText
    \/ \E b \in {<<0, 0, 0>>, <<1, 60, -1>>} : ConvertParsed(b)

SpecCommand == InitCommand /\ [][NextCommand]_vars

-----------------------------------------------------------------------------
(* Properties of the placed blocks, the resolver and the analyzer *)

\* C1: placing the script [/setblock 0 64 0 stone, /setblock 1 64 0 stone]
\* with place_at, anchor corner, at position (10, 70, 10) writes exactly the
\* cells (10, 70, 10) and (11, 70, 10) and reports blocks_placed = 2.
C1_PlaceAtTranslatesScript ==
    ( /\ last.op = "place_at"
      /\ last.script_path = "pair.txt"
      /\ last.anchor = "corner"
      /\ last.position = <<10, 70, 10>>
      /\ last.result.raised = "none" )
    => /\ last.written = {<<10, 70, 10>>, <<11, 70, 10>>}
       /\ last.result.value.blocks_placed = 2

\* C2: Position.resolve resolves each axis on its own: an absolute axis gives
\* its value whatever the origin, a relative axis gives the origin's
\* component plus its value, also when the axes of one position are mixed.
C2_ResolvePerAxis ==
    last.op = "resolve" =>
        /\ last.result[1] = IF last.pos.x.relative
                            THEN last.origin[1] + last.pos.x.value
                            ELSE last.pos.x.value
        /\ last.result[2] = IF last.pos.y.relative
                            THEN last.origin[2] + last.pos.y.value
                            ELSE last.pos.y.value
        /\ last.result[3] = IF last.pos.z.relative
                            THEN last.origin[3] + last.pos.z.value
                            ELSE last.pos.z.value

\* A position with a relative x, an absolute y and a relative z resolved
\* against an origin away from zero.
C2_MixedResolved ==
    /\ last.op = "resolve"
    /\ last.origin = <<10, 70, 10>>
    /\ last.pos = Position(Coordinate(1, TRUE), Coordinate(-1, FALSE), Coordinate(0, TRUE))
    /\ last.result = <<11, -1, 10>>

\* The positions of the commands a script yields, and the absolute values
\* they carry on one axis.
ScriptPositions(script) ==
    LET commands == _parse_commands(script) IN
    UNION { {_extract_positions(commands[i])[j] :
                j \in DOMAIN _extract_positions(commands[i])} :
            i \in DOMAIN commands }

AbsoluteValues(script, axis) ==
    {p[axis].value : p \in {q \in ScriptPositions(script) : ~q[axis].relative}}

Least(S) == CHOOSE m \in S : \A n \in S : m <= n
Greatest(S) == CHOOSE m \in S : \A n \in S : m >= n

BoxMin(b, axis) == IF axis = "x" THEN b.min_x ELSE IF axis = "y" THEN b.min_y ELSE b.min_z
BoxMax(b, axis) == IF axis = "x" THEN b.max_x ELSE IF axis = "y" THEN b.max_y ELSE b.max_z

\* C3: the bounding box is, on each axis, the least and the greatest absolute
\* value over the positions of all the commands, relative coordinates left
\* out; it is the all-zero box exactly when no absolute coordinate is seen.
C3_BoundingBoxIsAbsoluteExtent ==
    (last.op = "get_bounding_box" /\ last.result.raised = "none") =>
        LET b == last.result.value IN
        IF \A axis \in {"x", "y", "z"} : AbsoluteValues(last.script, axis) = {}
        THEN b = BoundingBox(0, 0, 0, 0, 0, 0)
        ELSE \A axis \in {"x", "y", "z"} :
                AbsoluteValues(last.script, axis) # {} =>
                    /\ BoxMin(b, axis) = Least(AbsoluteValues(last.script, axis))
                    /\ BoxMax(b, axis) = Greatest(AbsoluteValues(last.script, axis))

\* Every line of the script is a command the parser accepts.
AllParse(script) == \A i \in DOMAIN script : parse(script[i]).raised = "none"

\* C4: on a script whose commands parse, mixed absolute and relative axes
\* included, bounding_box, base_footprint and slice_at_y return without
\* raising, and the bounding box has max >= min on every axis.
C4_AnalyzerNeverRaises ==
    ( /\ last.op \in {"get_bounding_box", "get_base_footprint", "get_slice_at_y"}
      /\ AllParse(last.script) )
    => /\ last.result.raised = "none"
       /\ last.op = "get_bounding_box" =>
            \A axis \in {"x", "y", "z"} :
                BoxMax(last.result.value, axis) >= BoxMin(last.result.value, axis)

\* The blocks one command puts on level y: a setblock one block when its y
\* is absolute and equal to y; a fill its x-z area when both its y are
\* absolute and y lies between them.
TouchesLevel(cmd, y) ==
    IF cmd.type = "SetblockCommand"
    THEN ~cmd.position.y.relative /\ cmd.position.y.value = y
    ELSE /\ ~cmd.pos1.y.relative
         /\ ~cmd.pos2.y.relative
         /\ Min2(cmd.pos1.y.value, cmd.pos2.y.value) <= y
         /\ y <= Max2(cmd.pos1.y.value, cmd.pos2.y.value)

BlocksOnLevel(cmd, y) ==
    IF ~TouchesLevel(cmd, y) THEN 0
    ELSE IF cmd.type = "SetblockCommand" THEN 1
    ELSE (abs(cmd.pos2.x.value - cmd.pos1.x.value) + 1)
         * (abs(cmd.pos2.z.value - cmd.pos1.z.value) + 1)

RECURSIVE SumOnLevel(_, _, _)
SumOnLevel(commands, i, y) ==
    IF i > Len(commands) THEN 0
    ELSE BlocksOnLevel(commands[i], y) + SumOnLevel(commands, i + 1, y)

\* The absolute values the commands touching level y carry on one axis: of a
\* setblock its coordinate, of a fill both endpoints when both are absolute.
LevelValues(commands, y, axis) ==
    UNION { IF ~TouchesLevel(commands[i], y) THEN {}
            ELSE IF commands[i].type = "SetblockCommand"
            THEN (IF commands[i].position[axis].relative THEN {}
                  ELSE {commands[i].position[axis].value})
            ELSE (IF commands[i].pos1[axis].relative \/ commands[i].pos2[axis].relative
                  THEN {}
                  ELSE {commands[i].pos1[axis].value, commands[i].pos2[axis].value}) :
            i \in DOMAIN commands }

\* C5: slice_at_y(y) counts and measures exactly the commands touching level
\* y: its block_count is the sum of what each of them puts on the level, and
\* its x and z extents span the absolute x and z values they carry.
C5_SliceCountsTouchingCommands ==
    (last.op = "get_slice_at_y" /\ last.result.raised = "none") =>
        LET commands == _parse_commands(last.script)
            xs == LevelValues(commands, last.y, "x")
            zs == LevelValues(commands, last.y, "z")
            slice == last.result.value
        IN /\ slice.block_count = SumOnLevel(commands, 1, last.y)
           /\ xs # {} => slice.min_x = Least(xs) /\ slice.max_x = Greatest(xs)
           /\ zs # {} => slice.min_z = Least(zs) /\ slice.max_z = Greatest(zs)

-----------------------------------------------------------------------------
(* Properties of the placer *)

\* q is the floor of size / 2.
IsHalf(q, size) == 2 * q <= size /\ size <= 2 * q + 1

\* C6: the origin follows from the anchor: corner gives the target position;
\* center gives the target less the floor halves of width, height and depth,
\* so that the origin plus the halves is the target; base-center does so on
\* x and z and leaves y as it is.
C6_OriginFromAnchor ==
    (last.op = "place_at" /\ last.result.raised = "none") =>
        LET o == last.result.value.origin_used
            b == last.result.value.bounding_box
            p == last.position
        IN /\ last.anchor = "corner" => o = p
           /\ last.anchor = "center" =>
                /\ IsHalf(p[1] - o[1], b.max_x - b.min_x + 1)
                /\ IsHalf(p[2] - o[2], b.max_y - b.min_y + 1)
                /\ IsHalf(p[3] - o[3], b.max_z - b.min_z + 1)
                /\ << o[1] + ((b.max_x - b.min_x + 1) \div 2),
                      o[2] + ((b.max_y - b.min_y + 1) \div 2),
                      o[3] + ((b.max_z - b.min_z + 1) \div 2) >> = p
           /\ last.anchor = "base-center" =>
                /\ IsHalf(p[1] - o[1], b.max_x - b.min_x + 1)
                /\ o[2] = p[2]
                /\ IsHalf(p[3] - o[3], b.max_z - b.min_z + 1)

\* The 3 x 2 x 3 slab placed by its base-center at (10, 70, 10).
C6_SlabByBaseCenter ==
    /\ last.op = "place_at"
    /\ last.script_path = "slab.txt"
    /\ last.anchor = "base-center"
    /\ last.position = <<10, 70, 10>>
    /\ last.result.raised = "none"
    /\ last.result.value.origin_used = <<9, 70, 9>>

\* C7: with a reference script, place_adjacent moves relative_to on one axis
\* only: east, south and up by the reference's width, depth and height plus
\* the gap; west, north and down by the placed script's own width, depth and
\* height plus the gap.
C7_AdjacentOrigin ==
    ( /\ last.op = "place_adjacent"
      /\ last.reference_script # NoScript
      /\ last.result.raised = "none" )
    => LET r == last.relative_to
           o == last.result.value.origin_used
           b == last.result.value.bounding_box
           ref == get_bounding_box(open(last.reference_script)).value
           g == last.gap
       IN /\ last.direction = "east" =>
                o = <<r[1] + (ref.max_x - ref.min_x + 1) + g, r[2], r[3]>>
          /\ last.direction = "west" =>
                o = <<r[1] - (b.max_x - b.min_x + 1) - g, r[2], r[3]>>
          /\ last.direction = "south" =>
                o = <<r[1], r[2], r[3] + (ref.max_z - ref.min_z + 1) + g>>
          /\ last.direction = "north" =>
                o = <<r[1], r[2], r[3] - (b.max_z - b.min_z + 1) - g>>
          /\ last.direction = "up" =>
                o = <<r[1], r[2] + (ref.max_y - ref.min_y + 1) + g, r[3]>>
          /\ last.direction = "down" =>
                o = <<r[1], r[2] - (b.max_y - b.min_y + 1) - g, r[3]>>

\* The slab placed west of (0, 64, 0) with the pair as the reference.
C7_SlabWestOfPair ==
    /\ last.op = "place_adjacent"
    /\ last.script_path = "slab.txt"
    /\ last.reference_script = "pair.txt"
    /\ last.direction = "west"
    /\ last.gap = MaxGap
    /\ last.relative_to = <<0, 64, 0>>
    /\ last.result.raised = "none"
    /\ last.result.value.origin_used = <<0 - 3 - MaxGap, 64, 0>>

\* C8: without a reference script the reference is a point of extent 0 on
\* every axis: east, south and up move relative_to by exactly the gap.
C8_NoReferenceIsPoint ==
    ( /\ last.op = "place_adjacent"
      /\ last.reference_script = NoScript
      /\ last.result.raised = "none" )
    => LET r == last.relative_to
           o == last.result.value.origin_used
           g == last.gap
       IN /\ last.direction = "east" => o = <<r[1] + g, r[2], r[3]>>
          /\ last.direction = "south" => o = <<r[1], r[2], r[3] + g>>
          /\ last.direction = "up" => o = <<r[1], r[2] + g, r[3]>>

\* B was placed east of A's origin with A as the reference, and C is placed
\* east of B's origin with the same gap and B as the reference.
EastOfEast ==
    /\ HasPlaced
    /\ last.direction = "east"
    /\ last.reference_script # NoScript
    /\ last'.op = "place_adjacent"
    /\ last'.result.raised = "none"
    /\ last'.direction = "east"
    /\ last'.gap = last.gap
    /\ last'.relative_to = last.result.value.origin_used
    /\ last'.reference_script = last.script_path

\* C9: gaps add up along a row: with B placed east of A and C east of B, both
\* with gap g, C's origin lies A.width + g + B.width + g east of A's origin.
C9_GapsAddUp ==
    [][ EastOfEast =>
          LET A == get_bounding_box(open(last.reference_script)).value
              B == last.result.value.bounding_box
              g == last.gap
          IN last'.result.value.origin_used[1] - last.relative_to[1]
                = (A.max_x - A.min_x + 1) + g + (B.max_x - B.min_x + 1) + g
      ]_vars

\* The pair placed east of the slab and a third structure east of the pair,
\* both with the largest gap.
C9_RowOfThree ==
    /\ ncalls = 2
    /\ last.op = "place_adjacent"
    /\ last.direction = "east"
    /\ last.gap = MaxGap
    /\ last.reference_script = "pair.txt"
    /\ last.relative_to = <<3 + MaxGap, 64, 0>>
    /\ last.result.raised = "none"
    /\ last.result.value.origin_used = <<3 + MaxGap + 2 + MaxGap, 64, 0>>

\* The origin place_at derives for a target position, given the box.
AnchoredAt(p, b, anchor) ==
    IF anchor = "corner" THEN p
    ELSE IF anchor = "center"
    THEN <<p[1] - ((b.max_x - b.min_x + 1) \div 2),
           p[2] - ((b.max_y - b.min_y + 1) \div 2),
           p[3] - ((b.max_z - b.min_z + 1) \div 2)>>
    ELSE <<p[1] - ((b.max_x - b.min_x + 1) \div 2), p[2],
           p[3] - ((b.max_z - b.min_z + 1) \div 2)>>

\* C10: place_grid with grid (cols, rows) and spacing (sx, sz) returns
\* rows * cols placements in row-major order, the cell (row, col) placed with
\* the anchor at start + (col * (width + sx), 0, row * (depth + sz)).
C10_GridRowMajor ==
    (last.op = "place_grid" /\ last.result.raised = "none") =>
        LET results == last.result.value
            cols == last.grid_size[1]
            rows == last.grid_size[2]
            sx == last.spacing[1]
            sz == last.spacing[2]
        IN /\ Len(results) = rows * cols
           /\ \A row \in 0..(rows - 1), col \in 0..(cols - 1) :
                LET r == results[row * cols + col + 1]
                    b == r.bounding_box
                IN r.origin_used =
                     AnchoredAt(<<last.start[1] + col * ((b.max_x - b.min_x + 1) + sx),
                                  last.start[2],
                                  last.start[3] + row * ((b.max_z - b.min_z + 1) + sz)>>,
                                b, last.anchor)

\* The 3 x 3 footprint laid out two by two with spacing (1, 1) from (0, 64, 0).
C10_TwoByTwoOfSlabs ==
    /\ last.op = "place_grid"
    /\ last.script_path = "slab.txt"
    /\ last.grid_size = <<2, 2>>
    /\ last.spacing = <<1, 1>>
    /\ last.anchor = "corner"
    /\ last.start = <<0, 64, 0>>
    /\ last.result.raised = "none"
    /\ [k \in 1..4 |-> last.result.value[k].origin_used]
          = << <<0, 64, 0>>, <<4, 64, 0>>, <<0, 64, 4>>, <<4, 64, 4>> >>

-----------------------------------------------------------------------------
(* Properties of the script replay and of the fill modes *)

\* The lines of a script that execute: neither blank nor comment, and parsed.
Executing(script) ==
    {i \in DOMAIN script : ~Skipped(script[i]) /\ parse(script[i]).raised = "none"}

\* The cells the command of line i covers, resolved against the origin.
LineCells(script, origin, i) ==
    LET cmd == parse(script[i]).value IN
    IF cmd.type = "SetblockCommand"
    THEN {<< IF cmd.position.x.relative THEN origin[1] + cmd.position.x.value
                                        ELSE cmd.position.x.value,
             IF cmd.position.y.relative THEN origin[2] + cmd.position.y.value
                                        ELSE cmd.position.y.value,
             IF cmd.position.z.relative THEN origin[3] + cmd.position.z.value
                                        ELSE cmd.position.z.value >>}
    ELSE LET a == PosResolve(cmd.pos1, origin)
             b == PosResolve(cmd.pos2, origin)
         IN {c \in (Min2(a[1], b[1])..Max2(a[1], b[1]))
                   \X (Min2(a[2], b[2])..Max2(a[2], b[2]))
                   \X (Min2(a[3], b[3])..Max2(a[3], b[3])) : TRUE}

\* The cells line i modifies on a level that started empty: all it covers, or,
\* for a keep fill, those no earlier executing line covers.
LineWrites(script, origin, i) ==
    LET cmd == parse(script[i]).value IN
    IF cmd.type = "FillCommand" /\ cmd.mode = "keep"
    THEN {c \in LineCells(script, origin, i) :
            \A j \in Executing(script) : j < i => c \notin LineCells(script, origin, j)}
    ELSE LineCells(script, origin, i)

RECURSIVE SumOfWrites(_, _, _)
SumOfWrites(script, origin, lines) ==
    IF lines = {} THEN 0
    ELSE LET i == CHOOSE i \in lines : TRUE IN
         Cardinality(LineWrites(script, origin, i))
         + SumOfWrites(script, origin, lines \ {i})

C12_UnknownArgumentIsPlacementError ==
    ( \/ last.op \in {"place_at", "place_grid"} /\ last.anchor \notin AnchorValues
      \/ last.op = "place_adjacent" /\ last.direction \notin DirectionValues )
    => last.result.raised = "PlacementError"

\* The cells of the box between the two corners of the last fill, the length
\* of its side on axis k, and whether a cell lies at an end of that side.
LastBox ==
    {c \in FillCorners :
        \A k \in 1..3 : \/ last.c1[k] <= c[k] /\ c[k] <= last.c2[k]
                        \/ last.c2[k] <= c[k] /\ c[k] <= last.c1[k]}

Side(k) ==
    IF last.c1[k] <= last.c2[k] THEN last.c2[k] - last.c1[k] + 1
    ELSE last.c1[k] - last.c2[k] + 1

AtExtreme(c, k) == c[k] = last.c1[k] \/ c[k] = last.c2[k]

\* What a cell held before the last fill and what it holds after it.
Before(c) == IF c \in DOMAIN last.before THEN last.before[c] ELSE Air
After(c) == IF c \in DOMAIN world THEN world[c] ELSE Air

\* C13: in replace and destroy modes fill_region writes the block into every
\* cell of the normalized box and nowhere else, and returns width * height *
\* depth; destroy writes the same cells and returns the same count as replace.
C13_ReplaceFillsWholeBox ==
    (last.op = "fill_region" /\ last.mode \in {"replace", "destroy"}) =>
        /\ \A c \in LastBox : After(c) = Stone
        /\ \A c \in FillCorners \ LastBox : After(c) = Before(c)
        /\ last.written = LastBox
        /\ last.count = Side(1) * Side(2) * Side(3)
        /\ fill_region(last.before, last.c1[1], last.c1[2], last.c1[3],
                       last.c2[1], last.c2[2], last.c2[3], Stone, "destroy")
             = fill_region(last.before, last.c1[1], last.c1[2], last.c1[3],
                           last.c2[1], last.c2[2], last.c2[3], Stone, "replace")

\* A destroy fill of a 3 x 2 x 3 box given by its far corner first, over glass.
C13_DestroyOverGlass ==
    /\ last.op = "fill_region"
    /\ last.mode = "destroy"
    /\ last.c1 = <<2, 2, 2>>
    /\ last.c2 = <<0, 1, 0>>
    /\ last.before = Chequered
    /\ last.count = 18
    /\ After(<<1, 1, 1>>) = Stone
    /\ After(<<1, 0, 0>>) = Glass

\* C14: in hollow mode every cell of the box with a coordinate at its axis
\* minimum or maximum receives the block and every other cell of the box
\* receives air; the count is that of the shell cells:
\* 2 * (w*d + w*h + d*h) - 4 * (w + d + h) + 8 when w, h, d >= 2, and
\* w * h * d when a dimension is 1.
C14_HollowShellAndAir ==
    (last.op = "fill_region" /\ last.mode = "hollow") =>
        LET w == Side(1)
            h == Side(2)
            d == Side(3)
        IN /\ \A c \in LastBox :
                After(c) = IF \E k \in 1..3 : AtExtreme(c, k) THEN Stone ELSE Air
           /\ \A c \in FillCorners \ LastBox : After(c) = Before(c)
           /\ last.count = IF w >= 2 /\ h >= 2 /\ d >= 2
                           THEN 2 * (w * d + w * h + d * h) - 4 * (w + d + h) + 8
                           ELSE w * h * d

\* A hollow fill of the 3 x 3 x 3 box over glass: the cell in the middle held
\* glass and holds air.
C14_HollowCubeOverGlass ==
    /\ last.op = "fill_region"
    /\ last.mode = "hollow"
    /\ last.c1 = <<0, 0, 0>>
    /\ last.c2 = <<2, 2, 2>>
    /\ Before(<<1, 1, 1>>) = Glass
    /\ After(<<1, 1, 1>>) = Air
    /\ last.count = 26

\* The cells of the box with at least two coordinates at an end of their axis.
EdgeCells ==
    {c \in LastBox : \E j \in 1..3, k \in 1..3 :
                        j # k /\ AtExtreme(c, j) /\ AtExtreme(c, k)}

\* C15: in outline mode the cells written are exactly the cells of the box
\* with at least two of the three coordinates at their axis minimum or
\* maximum; every other cell, inside or outside the box, keeps its content.
C15_OutlineWritesEdgesOnly ==
    (last.op = "fill_region" /\ last.mode = "outline") =>
        /\ last.written = EdgeCells
        /\ \A c \in EdgeCells : After(c) = Stone
        /\ \A c \in FillCorners \ EdgeCells : After(c) = Before(c)

\* An outline fill of the 3 x 3 x 3 box over glass: the middle of a face and
\* the middle of the box keep their content, the middle of an edge is written.
C15_OutlineCubeOverGlass ==
    /\ last.op = "fill_region"
    /\ last.mode = "outline"
    /\ last.c1 = <<2, 2, 2>>
    /\ last.c2 = <<0, 0, 0>>
    /\ last.before = Chequered
    /\ After(<<1, 1, 1>>) = Glass
    /\ After(<<1, 0, 1>>) = Air
    /\ After(<<1, 0, 0>>) = Stone
    /\ Cardinality(last.written) = 20

\* C16: in every fill mode and for every box, boxes with a dimension of 1
\* included, the value fill_region returns is the number of distinct cells
\* written with the fill block (no cell holds the fill block before the fill;
\* the air a hollow fill writes is not counted).
C16_CountIsCellsWritten ==
    last.op = "fill_region" =>
        last.count = Cardinality({c \in FillCorners : After(c) = Stone})

\* C17: for every box the count outline mode reports is at most the count
\* hollow mode reports for the same box on the same level.
C17_OutlineAtMostHollow ==
    (last.op = "fill_region" /\ last.mode = "outline") =>
        last.count <= fill_region(last.before, last.c1[1], last.c1[2], last.c1[3],
                                  last.c2[1], last.c2[2], last.c2[3], Stone,
                                  "hollow").value.count

-----------------------------------------------------------------------------
(* Properties of the converter and of the parser *)

\* The positions of the command on line i of the input, and those of the
\* command read back from the line written for it (after the header).
InputPositions(i) == _extract_positions(parse(last.script[i]).value)
OutputPositions(i) ==
    _extract_positions(parse(ReadLine(last.output[Len(Header) + i])).value)

\* C19: convert_file writes every absolute coordinate v of an axis as a
\* relative coordinate of offset v - base[axis], and a relative coordinate
\* with its offset unchanged; a converted position whose coordinates were
\* all absolute, resolved against the base point, is the original position.
C19_ConvertedResolvesBack ==
    (last.op = "convert_file" /\ last.result.raised = "none") =>
        LET base == last.result.value[1] IN
        \A i \in Executing(last.script) :
            /\ Len(OutputPositions(i)) = Len(InputPositions(i))
            /\ \A j \in DOMAIN InputPositions(i) :
                LET a == InputPositions(i)[j]
                    c == OutputPositions(i)[j]
                IN /\ c.x = [value |-> IF a.x.relative THEN a.x.value
                                       ELSE a.x.value - base[1], relative |-> TRUE]
                   /\ c.y = [value |-> IF a.y.relative THEN a.y.value
                                       ELSE a.y.value - base[2], relative |-> TRUE]
                   /\ c.z = [value |-> IF a.z.relative THEN a.z.value
                                       ELSE a.z.value - base[3], relative |-> TRUE]
                   /\ (~a.x.relative /\ ~a.y.relative /\ ~a.z.relative) =>
                        <<c.x.value + base[1], c.y.value + base[2], c.z.value + base[3]>>
                            = <<a.x.value, a.y.value, a.z.value>>

\* A setblock at (2, 65, 0) and a fill converted against the base point the
\* converter detects, (0, 64, 0): the setblock is written as ~+2 ~+1 ~.
C19_DetectedBaseConversion ==
    /\ last.op = "convert_file"
    /\ last.base_point = NoBase
    /\ last.auto_detect
    /\ last.result.raised = "none"
    /\ last.result.value[1] = <<0, 64, 0>>
    /\ Len(last.script) = 2
    /\ last.script[1] = SetblockLine(Abs3(2, 65, 0), StoneTree)
    /\ last.script[2].kind = "fill"
    /\ last.output[Len(Header) + 1].position
          = <<TildeSignedText(2), TildeSignedText(1), TildeText>>

\* The number a text stands for: its digits, negated under a "-" sign.
NumberOf(text) == IF text.sign = "-" THEN -(text.digits) ELSE text.digits

\* The coordinate a text stands for.
CoordinateOf(text) ==
    [value |-> IF Len(text.number) = 0 THEN 0 ELSE NumberOf(text.number[1]),
     relative |-> text.tilde]

\* C20: a relative coordinate text parses to a relative Coordinate whose value
\* is the signed integer after "~", or 0 when none follows; an absolute one
\* to an absolute Coordinate with the signed integer as value; the three
\* coordinates of a position go to x, y and z in the order of the text.
C20_CoordinatesParseInOrder ==
    last.op = "position" =>
        /\ last.result.x = CoordinateOf(last.texts[1])
        /\ last.result.y = CoordinateOf(last.texts[2])
        /\ last.result.z = CoordinateOf(last.texts[3])

\* The text "~-1 +1 ~" parsed.
C20_MixedTextParsed ==
    /\ last.op = "position"
    /\ last.texts = << [tilde |-> TRUE, number |-> <<[sign |-> "-", digits |-> 1]>>],
                       [tilde |-> FALSE, number |-> <<[sign |-> "+", digits |-> 1]>>],
                       TildeText >>
    /\ last.result = [x |-> [value |-> -1, relative |-> TRUE],
                      y |-> [value |-> 1, relative |-> FALSE],
                      z |-> [value |-> 0, relative |-> TRUE]]

-----------------------------------------------------------------------------
(* Properties of the base footprint *)

\* C24: for a script with an absolute y, base_footprint returns a footprint
\* whose y_level is the least absolute y of the script and whose extents and
\* block_count are those slice_at_y returns for that level; for a script
\* without an absolute y it returns the footprint of zero extent and zero
\* blocks at level 0.
C24_BaseFootprintIsLowestSlice ==
    last.op = "get_base_footprint" =>
        LET ys == AbsoluteValues(last.script, "y") IN
        IF ys = {} THEN last.result = Returned(Footprint(0, 0, 0, 0, 0, 0))
        ELSE /\ last.result.raised = "none"
             /\ last.result.value.y_level = Least(ys)
             /\ get_slice_at_y(last.script, Least(ys)).raised = "none"
             /\ LET base == last.result.value
                    slice == get_slice_at_y(last.script, Least(ys)).value
                IN /\ base.min_x = slice.min_x
                   /\ base.max_x = slice.max_x
                   /\ base.min_z = slice.min_z
                   /\ base.max_z = slice.max_z
                   /\ base.block_count = slice.block_count

-----------------------------------------------------------------------------
(* Properties of the corners of a fill *)

\* The two corners with their coordinates exchanged on the axes of a set.
Exchanged(c1, c2, axes) ==
    << [k \in 1..3 |-> IF k \in axes THEN c2[k] ELSE c1[k]],
       [k \in 1..3 |-> IF k \in axes THEN c1[k] ELSE c2[k]] >>

\* C25: in every mode, fill_region on the two corners with their coordinates
\* exchanged on any set of axes writes the same cells, leaves the same world
\* and returns the same count.
C25_CornersExchangeable ==
    last.op = "fill_region" =>
        \A axes \in SUBSET (1..3) :
            LET c == Exchanged(last.c1, last.c2, axes)
                r == fill_region(last.before, c[1][1], c[1][2], c[1][3],
                                 c[2][1], c[2][2], c[2][3], Stone, last.mode)
            IN /\ r.raised = "none"
               /\ r.value.written = last.written
               /\ r.value.world = world
               /\ r.value.count = last.count

\* A keep fill over glass from (2, 0, 1) to (0, 2, 0): the first corner is
\* the greater on x and z, the lesser on y.
C25_KeepBetweenMixedCorners ==
    /\ last.op = "fill_region"
    /\ last.mode = "keep"
    /\ last.c1 = <<2, 0, 1>>
    /\ last.c2 = <<0, 2, 0>>
    /\ last.before = Chequered
    /\ last.count = 9
    /\ After(<<0, 0, 0>>) = Stone
    /\ After(<<1, 0, 0>>) = Glass

-----------------------------------------------------------------------------
(* Properties of the placer called with unrecognized arguments *)

\* C23: a call of place_at or place_grid with an unrecognized anchor, or of
\* place_adjacent with an unrecognized direction, fails without a block
\* written, and leaves the world and the editor as they were.
C23_RejectedBeforeAnyWrite ==
    [][ ( \/ last'.op \in {"place_at", "place_grid"} /\ last'.anchor \notin AnchorValues
          \/ last'.op = "place_adjacent" /\ last'.direction \notin DirectionValues )
        => ( /\ last'.result.raised # "none"
             /\ last'.written = {}
             /\ world' = world
             /\ editor' = editor ) ]_vars

\* place_grid has failed on the anchor "middle" after an earlier placement,
\* whose blocks are still the content of the world.
C23_GridRejectedAfterPlacement ==
    /\ last.op = "place_grid"
    /\ last.anchor = "middle"
    /\ last.result.raised # "none"
    /\ last.written = {}
    /\ ncalls = 2
    /\ DOMAIN world = {<<0, 64, 0>>, <<1, 64, 0>>}
    /\ editor = WorldEditor(<<0, 64, 0>>)

-----------------------------------------------------------------------------
(* Properties of the base point of a conversion *)

AxisIndex(axis) == IF axis = "x" THEN 1 ELSE IF axis = "y" THEN 2 ELSE 3

\* C26: convert_file returns the base point and the bounding box of the
\* original script. The base point is the one given; without one, it is with
\* auto_detect the least absolute coordinate of the parsed commands on every
\* axis that has one ((0, 0, 0) when no axis has one), and then every
\* coordinate that was absolute is written with an offset of at least 0; it
\* is (0, 0, 0) without auto_detect.
C26_BasePointChosen ==
    last.op = "convert_file" =>
        /\ last.result.raised = "none"
        /\ LET base == last.result.value[1]
               bbox == last.result.value[2]
               values(axis) == AbsoluteValues(last.script, axis)
           IN /\ last.base_point # NoBase => base = last.base_point[1]
              /\ (last.base_point = NoBase /\ ~last.auto_detect) => base = <<0, 0, 0>>
              /\ (last.base_point = NoBase /\ last.auto_detect) =>
                    /\ (\A axis \in {"x", "y", "z"} : values(axis) = {})
                          => base = <<0, 0, 0>>
                    /\ \A axis \in {"x", "y", "z"} :
                          values(axis) # {} => base[AxisIndex(axis)] = Least(values(axis))
                    /\ \A i \in Executing(last.script) :
                          \A j \in DOMAIN InputPositions(i) :
                             \A axis \in {"x", "y", "z"} :
                                ~InputPositions(i)[j][axis].relative
                                => OutputPositions(i)[j][axis].value >= 0
              /\ \A axis \in {"x", "y", "z"} :
                    values(axis) # {} =>
                       /\ BoxMin(bbox, axis) = Least(values(axis))
                       /\ BoxMax(bbox, axis) = Greatest(values(axis))

-----------------------------------------------------------------------------
(* Properties of the parser on command texts *)

\* The value the text of a state stands for: a boolean for true and false, the
\* integer for an optional sign followed by digits, the text itself otherwise.
Coerced(s) ==
    IF s = TrueText THEN PyBool(TRUE)
    ELSE IF s = FalseText THEN PyBool(FALSE)
    ELSE IF isdigit(s) THEN PyInt(Decimal(s))
    ELSE IF Len(s) > 1 /\ s[1] = "+" /\ isdigit(Tail(s)) THEN PyInt(Decimal(Tail(s)))
    ELSE IF Len(s) > 1 /\ s[1] = "-" /\ isdigit(Tail(s)) THEN PyInt(0 - Decimal(Tail(s)))
    ELSE PyStr(s)

\* Two state values are the same when of the same type and equal.
SameValue(a, b) == a.type = b.type /\ a.value = b.value

\* C21: when the grammar accepts the text of a command with a state list, the
\* parse does not fail and every key of the list holds the coerced value of
\* its text (of the last one, when the key is written twice): true and false
\* as booleans, an optional sign followed by digits as that integer, every
\* other text as the string of the text.
C21_StateValuesCoerced ==
    ( /\ last.op = "parse"
      /\ ReadLine(last.text).kind \in {"setblock", "fill"}
      /\ Len(last.text.block.states) = 1 )
    => /\ last.result.raised = "none"
       /\ Len(last.result.value.block.states) = 1
       /\ LET pairs == last.text.block.states[1]
              states == last.result.value.block.states[1]
          IN \A i \in 1..Len(pairs) :
                (\A j \in (i + 1)..Len(pairs) : pairs[j][1] # pairs[i][1])
                => \E k \in 1..Len(states) :
                      /\ states[k][1] = pairs[i][1]
                      /\ SameValue(states[k][2], Coerced(pairs[i][2]))

\* "/setblock 0 64 0 lever[powered=-10]" parsed: powered is the integer -10.
C21_NegativeTenParsed ==
    /\ last.op = "parse"
    /\ last.text.kind = "setblock"
    /\ last.text.block.states = << << <<"powered", <<"-", "1", "0">> >> >> >>
    /\ last.result.raised = "none"
    /\ last.result.value.block.states = << << <<"powered", PyInt(-10)>> >> >>

\* The positions written in the text of a command.
TextPositions(text) ==
    IF text.kind = "fill" THEN <<text.pos1, text.pos2>> ELSE <<text.position>>

\* The grammar violations of a text: a verb that is neither setblock nor fill,
\* a position short of a coordinate, a coordinate that is no integer, a state
\* list without a pair, a fill mode that is none of the five.
ViolatesGrammar(text) ==
    \/ text.kind \notin {"setblock", "fill"}
    \/ \E i \in 1..Len(TextPositions(text)) :
          \/ Len(TextPositions(text)[i]) < 3
          \/ \E k \in 1..Len(TextPositions(text)[i]) : TextPositions(text)[i][k] = WordText
    \/ text.block.states = << <<>> >>
    \/ text.kind = "fill" /\ \E i \in 1..Len(text.mode) :
          text.mode[i] \notin {"replace", "destroy", "hollow", "keep", "outline"}

\* C22: parse returns a SetblockCommand or a FillCommand, or fails with
\* CommandSyntaxError and with nothing else; a text that violates the grammar
\* fails with CommandSyntaxError.
C22_ParseFailsWithSyntaxErrorOnly ==
    last.op = "parse" =>
        /\ \/ last.result.raised = "CommandSyntaxError"
           \/ /\ last.result.raised = "none"
              /\ last.result.value.type \in {"SetblockCommand", "FillCommand"}
        /\ ViolatesGrammar(last.text) => last.result.raised = "CommandSyntaxError"

\* "/setblock abc 0 0 oak_stairs" has failed with CommandSyntaxError.
C22_WordForCoordinate ==
    /\ last.op = "parse"
    /\ last.text.kind = "setblock"
    /\ last.text.position = <<WordText, AbsText(0), AbsText(0)>>
    /\ last.text.block = BlockText(<<>>, "oak_stairs", <<>>)
    /\ last.result.raised = "CommandSyntaxError"

-----------------------------------------------------------------------------
(* Properties of the batch command *)

\* The lines of a file that hold a command, in file order.
CommandLines(script) == SelectSeq([i \in 1..Len(script) |-> i],
                                 LAMBDA i : ~Skipped(script[i]))

RECURSIVE SumOfCounts(_, _)
SumOfCounts(echoed, i) ==
    IF i > Len(echoed) THEN 0
    ELSE (IF echoed[i].error = "none" THEN echoed[i].count ELSE 0)
         + SumOfCounts(echoed, i + 1)

\* C27: batch executes every line that is neither blank nor a comment, in
\* file order, going on after a command that fails; the failures are counted,
\* the total is the sum of the counts of the commands that succeeded, and the
\* world is saved once, after the last line, whether or not a command failed.
C27_BatchGoesOnAfterFailure ==
    last.op = "batch" =>
        /\ [k \in 1..Len(last.echoed) |-> last.echoed[k].line] = CommandLines(last.script)
        /\ last.errors = Cardinality({k \in 1..Len(last.echoed) :
                                         last.echoed[k].error # "none"})
        /\ last.total = SumOfCounts(last.echoed, 1)
        /\ Cardinality({k \in 1..Len(last.calls) : last.calls[k] = "save"}) = 1
        /\ \A k \in 1..Len(last.calls) :
              last.calls[k] = "execute" =>
                  \E j \in (k + 1)..Len(last.calls) : last.calls[j] = "save"
        /\ \A k \in 1..Len(last.calls) :
              last.calls[k] = "save" => \A j \in (k + 1)..Len(last.calls) :
                                           last.calls[j] = "close"
        /\ last.saved = world

\* A file whose first line is no command and whose second fills four cells:
\* one failure, four blocks, saved.
C27_FillAfterFailureSaved ==
    /\ last.op = "batch"
    /\ last.script = <<Invalid,
                       FillLine(<<Tilde, Tilde, Tilde>>, <<RelTok(1), Tilde, RelTok(1)>>,
                                StoneTree, <<>>)>>
    /\ last.before = EmptyWorld
    /\ last.errors = 1
    /\ last.total = 4
    /\ last.calls = <<"WorldEditor", "execute", "execute", "save", "close">>

-----------------------------------------------------------------------------
(* Properties of the block and the mode under conversion *)

\* Two state lists are the same when they hold the same keys in the same
\* order, each with the same value.
SameStates(a, b) ==
    /\ Len(a) = Len(b)
    /\ Len(a) = 1 =>
          /\ Len(a[1]) = Len(b[1])
          /\ \A i \in 1..Len(a[1]) :
                /\ a[1][i][1] = b[1][i][1]
                /\ SameValue(a[1][i][2], b[1][i][2])

\* C28: the line a command is converted to parses to a command of the same
\* kind, with the same namespace and block id, the same state keys in the
\* same order with values of the same type and value, and for a fill the
\* same mode.
C28_ConversionKeepsBlockAndMode ==
    last.op = "_convert_command" =>
        /\ last.result.raised = "none"
        /\ last.result.value.type = last.ast.type
        /\ last.result.value.block.namespace = last.ast.block.namespace
        /\ last.result.value.block.block_id = last.ast.block.block_id
        /\ SameStates(last.result.value.block.states, last.ast.block.states)
        /\ last.ast.type = "FillCommand" => last.result.value.mode = last.ast.mode

-----------------------------------------------------------------------------
(* Properties of the lines a replay skips *)

\* The level after the replay of the first n lines of a script.
AfterLines(w, script, origin, n) == _execute_script(w, SubSeq(script, 1, n), origin).world

\* C29: a line of a replayed script that is skipped because its command
\* failed, in the parser or in the world, leaves the level as it was before
\* the line.
C29_SkippedLineLeavesLevel ==
    last.op = "_execute_script" =>
        \A i \in 1..Len(last.script) :
            ( /\ ~Skipped(last.script[i])
              /\ execute(AfterLines(last.before, last.script, last.origin, i - 1),
                         last.origin, last.script[i]).raised # "none" )
            => AfterLines(last.before, last.script, last.origin, i)
                 = AfterLines(last.before, last.script, last.origin, i - 1)

-----------------------------------------------------------------------------
(* Properties of the world sessions of a placer *)

\* The sessions left open by a sequence of calls on the world.
OpenAfter(calls) ==
    Cardinality({k \in 1..Len(calls) : calls[k] = "load_level"})
    - Cardinality({k \in 1..Len(calls) : calls[k] = "close"})

\* One call on the placer, as far as the sessions go: the level is loaded
\* only by a placement that executes its script, and by it whenever the
\* placer holds no editor; leaving the with block saves, then closes, when
\* the placer holds an editor, and calls nothing when it holds none.
SessionStep ==
    /\ ( /\ Len(last'.calls) > Len(last.calls)
         /\ last'.calls[Len(last.calls) + 1] = "load_level" )
       => (last'.op = "place_at" /\ last'.result.raised = "none")
    /\ (last'.op = "place_at" /\ last'.result.raised = "none" /\ ~editor.open)
       => last'.calls = last.calls \o <<"load_level">>
    /\ (last'.op = "__exit__" /\ editor.open)
       => (last'.calls = last.calls \o <<"save", "close">> /\ editor' = NoEditor)
    /\ (last'.op = "__exit__" /\ ~editor.open)
       => (last'.calls = last.calls /\ editor' = NoEditor)

\* C30: the placer opens the world lazily and releases it in order. No
\* session exists before a placement executes a script; leaving the with
\* block with a session open saves, then closes, and clears the editor, so
\* that a later placement opens a new session; with no session open it
\* neither saves nor closes; and at no point of any sequence of placements,
\* saves, closes and exits is more than one session open.
C30_SessionsOpenedLazilyReleasedInOrder ==
    /\ [](\A n \in 0..Len(last.calls) : OpenAfter(SubSeq(last.calls, 1, n)) \in {0, 1})
    /\ [](editor.open <=> OpenAfter(last.calls) = 1)
    /\ [][SessionStep]_vars

\* A placement, the exit from the with block, and a placement again: the
\* second placement has opened a second session after the first was saved and
\* closed.
C30_PlacedAgainAfterExit ==
    /\ last.op = "place_at"
    /\ last.result.raised = "none"
    /\ last.calls = <<"load_level", "save", "close", "load_level">>
    /\ editor.open

====
